---- MODULE Spec2Model ----
(***************************************************************************)
(* A state-machine model of the core of ai-cxdb-observe (package aisen).    *)
(*                                                                         *)
(* AsyncSink (sinks/async): a bounded channel, one drain goroutine          *)
(* (processLoop), producers calling Write, callers of Close and a caller    *)
(* of Flush.  Every goroutine is a process with a program counter; one      *)
(* action is one channel operation, one critical section or one call of     *)
(* the inner sink, so that every interleaving the Go scheduler allows is a  *)
(* behaviour of the model.  A select with several ready cases is a          *)
(* nondeterministic choice among them, as the Go specification defines it.  *)
(*                                                                         *)
(* MultiSink (sinks/multi): one call of Write, Flush or Close walking the   *)
(* children, each of which fails or succeeds.                               *)
(*                                                                         *)
(* Collector: one Record call on any event, with the Scrubber and           *)
(* Fingerprint as operators on strings that are sequences of units.         *)
(*                                                                         *)
(* operationHistoryBuffer (adapters/agentssdk): the ring buffer under any   *)
(* sequence of Add, GetAll and UpdateLast.                                  *)
(*                                                                         *)
(* Scrubber and Fingerprint: single calls of ScrubMessage, ScrubStackTrace, *)
(* ScrubMetadata, ScrubJSON and Fingerprint on any input; JSON texts are    *)
(* token sequences, parsed into trees and written back.                     *)
(*                                                                         *)
(* WrappedRunner, HookAdapter and Recover (adapters/agentssdk): one run     *)
(* with its tool and LLM hooks in any order, ending in an error, a panic    *)
(* or a result, and the event built and recorded for it.                    *)
(*                                                                         *)
(* inMemoryEnrichmentStore: Update, Get and Delete on a map of Enrichment   *)
(* values whose operation history is a pointer into a heap of buffers, and  *)
(* the overlapping runs of one WrappedRunner (Run, RunOnce, RunStream)      *)
(* over that store.  Termination is studied under weak fairness of the      *)
(* steps a goroutine takes by itself.                                       *)
(*                                                                         *)
(* Each component has its own specification; the variables of the others    *)
(* stay at rest in it.                                                      *)
(***************************************************************************)
EXTENDS Naturals, Integers, Sequences, FiniteSets, TLC

\* ------------------------------------------------------------------ bounds

\* cfg.queueSize, the capacity of s.queue (1000 by default, WithQueueSize(n)).
QueueSize == 2

\* The number of events the producers write in one behaviour.
MaxEvents == 4

\* The most children a multi sink is given.
MaxSinks == 3

\* The number of calls made on a multi sink in one behaviour.
MaxCalls == 2

\* The largest maxSize of an operation history buffer.
MaxCapacity == 3

\* The number of records added to a buffer in one behaviour.
MaxAdds == 5

\* ---------------------------------------------------------------- processes

\* Goroutines calling asyncSink.Write.
Producers == {"p1", "p2"}

\* NewAsyncSink starts one processLoop goroutine: s.wg.Add(1); go s.processLoop()
NumWorkers == 1

\* NewAsyncSink starting a second processLoop goroutine.
WorkersMany == 1 .. (NumWorkers + 1)

\* The drain goroutines of one async sink.
Workers == 1 .. NumWorkers

\* Goroutines calling asyncSink.Close.
Closers == {"c1", "c2"}

\* No event: the zero ErrorEvent, which a receive on a closed channel yields.
NoEvent == 0

VARIABLES
    queue,          \* s.queue: the buffered events, oldest first
    queueClosed,    \* close(s.queue) has run
    queueCloses,    \* how many times close(s.queue) has run
    doneClosed,     \* close(s.done) has run
    doneCloses,     \* how many times close(s.done) has run
    closed,         \* s.closed
    once,           \* s.closeOnce: "idle", "running" or "done"
    worker,         \* processLoop: [pc, ev] per drain goroutine
    prod,           \* Write: per producer its position, event and this call's record
    closer,         \* Close: per caller its position and result
    flusher,        \* Flush: the caller's position, result and what it saw
    ctxCancelled,   \* the Flush caller's ctx is done
    tickReady,      \* Flush's ticker.C holds a tick
    inner,          \* the inner sink as the async sink drives it
    dropLog,        \* onDropped: [calls, events], the calls made and the events dropped
    enqueued,       \* every event a Write has put on the queue, in enqueue order
    nextId,         \* the next event a Write call carries
    queuedAtClose,  \* the queue's contents when Close marked the sink closed
    cfg,            \* asyncSinkConfig: the options given and the queueSize they set
    multi,          \* a multiSink, its children and the call that is running
    coll,           \* a defaultCollector, its sink, scrubber and Record call
    input,          \* the event the caller passed to Record
    ring,           \* an operationHistoryBuffer: records, maxSize, writeIdx
    hist,           \* the calls made on the buffer and what they returned
    scrub,          \* a Scrubber, the call made on it and what it returned
    fp,             \* a Fingerprint call: the event and the fingerprint returned
    run,            \* a WrappedRunner.Run or Recover call and the event it builds
    store,          \* an inMemoryEnrichmentStore, its buffers and a caller's copy
    runs            \* the runs of one WrappedRunner, by run ID

asyncVars == <<queue, queueClosed, queueCloses, doneClosed, doneCloses, closed,
               once, worker, prod, closer, flusher, ctxCancelled, tickReady,
               inner, dropLog, enqueued, nextId, queuedAtClose, cfg>>

multiVars == <<multi>>

collVars == <<coll, input>>

ringVars == <<ring, hist>>

pureVars == <<scrub, fp>>

runVars == <<run>>

storeVars == <<store, runs>>

otherVars == <<multiVars, collVars, ringVars, pureVars, runVars, storeVars>>

vars == <<asyncVars, otherVars>>

\* ---------------------------------------------------------------- helpers

Range(s) == {s[i] : i \in 1 .. Len(s)}

\* A producer that is not inside a Write call.
IdleProducer == [pc |-> "idle", ev |-> NoEvent, res |-> "none", full |-> FALSE,
                 evicted |-> <<>>, oldest |-> TRUE, cb |-> 0, enq |-> FALSE,
                 late |-> FALSE]

\* A Flush caller that is not inside a Flush call.
IdleFlusher == [pc |-> "idle", res |-> "none", overlap |-> FALSE,
                cancelledFirst |-> FALSE, innerCalled |-> FALSE, pending |-> FALSE,
                afterClose |-> FALSE]

\* A producer is inside Write: between the call and its return (or panic).
InWrite(p) == prod[p].pc \in {"send", "evict", "resend"}

\* The place of event e in the order in which events were put on the queue.
EnqueuePos(e) == CHOOSE i \in 1 .. Len(enqueued) : enqueued[i] = e

\* Event e was put on the queue before every other event of queue q.
IsOldest(e, q) == \A i \in 1 .. Len(q) : EnqueuePos(e) <= EnqueuePos(q[i])

\* The events accepted and still owed to the inner sink: put on the queue,
\* not dropped, and the inner sink's Write for them has not returned.
Undelivered == (Range(enqueued) \ dropLog.events) \ Range(inner.writes)

\* What the inner sink's Flush and Close return.  The inner sink is any Sink:
\* one whose Flush and Close succeed (as those of the noop, stderr and cxdb
\* sinks always do) or one whose Flush and Close fail.
InnerResult == IF inner.fails THEN "innerErr" ELSE "nil"

\* NewMultiSink(sinks...): &multiSink{sinks: sinks}, with no call made yet.
\* A call's record: the operation, the index of the next child, the
\* errors collected, the children called, those that failed, and the result.
NewMultiSink(sinks) ==
    [sinks |-> sinks, pc |-> "idle", op |-> "none", i |-> 1, errs |-> <<>>,
     log |-> <<>>, failed |-> {}, res |-> [kind |-> "none"], calls |-> 0]

\* c.scrubber == nil: no WithScrubber and no WithDefaultScrubbing was given.
NoScrubber ==
    [on |-> FALSE, ScrubMessages |-> FALSE, MaxMessageSize |-> 0,
     MaxStackTraceSize |-> 0, MaxMetadataKeySize |-> 0]

\* NewCollector(opts...): the sink given with WithSink, or &noopSinkInternal{}
\* when none (or nil) was given, and the scrubber.  No Record call made yet.
NewCollector(sinkSet, scrubber) ==
    [sinkSet |-> sinkSet, scrubber |-> scrubber, pc |-> "idle",
     sunk |-> <<>>, sinkRes |-> "none", res |-> "none"]

\* The zero ErrorEvent: no identity, empty strings, nil metadata.
ZeroEvent ==
    [EventID |-> "", Timestamp |-> 0, Fingerprint |-> <<>>,
     ErrorType |-> <<>>, Operation |-> <<>>, AgentName |-> <<>>,
     ToolName |-> <<>>, Message |-> <<>>, StackTrace |-> <<>>,
     Metadata |-> [isNil |-> TRUE, kv |-> <<>>]]

\* &operationHistoryBuffer{maxSize: n}: no records, writeIdx 0.
NewBuffer(n) == [records |-> <<>>, maxSize |-> n, writeIdx |-> 0]

\* No call has been made on the buffer: nothing added, nothing returned.
\* cap is cap(b.records); held is the slice the last GetAll returned as its
\* holder reads it now, aliased whether it shares the array of b.records.
NoHistory ==
    [added |-> <<>>, op |-> "none", got |-> <<>>, updated |-> FALSE,
     fnCalls |-> 0, before |-> <<>>, patch |-> 0, updates |-> 0,
     cap |-> 0, held |-> <<>>, aliased |-> FALSE]

\* A multi sink without children on which nothing is called.
MultiAtRest == multi = NewMultiSink(<<>>)

\* A collector on which nothing is called.
CollectorAtRest ==
    /\ coll = NewCollector(FALSE, NoScrubber)
    /\ input = ZeroEvent

\* A buffer on which nothing is called.
BufferAtRest ==
    /\ ring = NewBuffer(1)
    /\ hist = NoHistory

\* No call has been made on a scrubber.
NoScrubCall == [cfg |-> NoScrubber, op |-> "none", arg |-> <<>>, out |-> <<>>]

\* No Fingerprint call has been made.
NoFingerprintCall ==
    [pc |-> "idle", out |-> <<>>,
     event |-> [EventID |-> "", Timestamp |-> 0, Severity |-> "",
                ErrorType |-> <<>>, Operation |-> <<>>, AgentName |-> <<>>,
                ToolName |-> <<>>, Message |-> <<>>, StackTrace |-> <<>>,
                Metadata |-> [isNil |-> TRUE, kv |-> <<>>]]]

\* The scrubber and Fingerprint are not called.
PureAtRest ==
    /\ scrub = NoScrubCall
    /\ fp = NoFingerprintCall

\* context.Background(): WithContextID was not called on the context.
NoContextID == [set |-> FALSE, id |-> 0]

\* A session that does not implement ContextIDProvider (or no session).
NoSession == [provider |-> FALSE, failing |-> FALSE, id |-> 0]

\* No run has started: no context ID supplied, nothing extracted, no hook
\* called, no event built.  openTools and openLLMs are the operations (by
\* the timestamp of their start) that the agent has started and not ended,
\* ended the operation whose end hook was called last (0: none, or a start
\* hook came after it).
NoRun ==
    [pc |-> "idle", ctx |-> NoContextID, session |-> NoSession,
     method |-> "none", contextID |-> 0, ops |-> 0, tools |-> 0, ends |-> 0,
     openTools |-> {}, openLLMs |-> {}, ended |-> 0,
     Operation |-> <<>>, ToolName |-> <<>>, failure |-> "none",
     built |-> ZeroEvent]

\* NewEnrichmentStore(): an empty map.  bufs are the operationHistoryBuffers
\* that exist (a pointer is an index, 0 is nil), got the Enrichment a caller
\* received from Get, op the call made last and steps the calls made.
NoStore ==
    [data |-> <<>>, bufs |-> <<>>, op |-> "none", steps |-> 0,
     got |-> [ok |-> FALSE, AgentName |-> "", operationHistory |-> 0]]

\* No run of the runner has been started.
NoRuns == <<>>

\* No runner is running and no store is used.
RunAtRest ==
    /\ run = NoRun
    /\ store = NoStore
    /\ runs = NoRuns

\* The default of asyncSinkConfig.queueSize: queueSize: 1000
DefaultQueueSize == 1000

\* The sizes a caller gives to WithQueueSize.
QueueSizes == -1 .. QueueSize

\* What a caller passes as opts: nothing or one WithQueueSize(n).
QueueOptions == {<<>>} \cup {<<n>> : n \in QueueSizes}

\* WithQueueSize with the guard left out: any size is taken.
WithQueueSizeUnguarded(size, c) == [c EXCEPT !.queueSize = size]

\* WithQueueSize(size): func(c) { if size > 0 { c.queueSize = size } }
WithQueueSize(size, c) == IF size > 0 THEN [c EXCEPT !.queueSize = size] ELSE c

\* NewAsyncSink: cfg := &asyncSinkConfig{queueSize: 1000, ...}
\*               for _, opt := range opts { opt(cfg) }
RECURSIVE ApplyOptions(_, _)
ApplyOptions(opts, c) ==
    IF opts = <<>> THEN c
    ELSE ApplyOptions(Tail(opts), WithQueueSize(Head(opts), c))

\* The state NewAsyncSink(inner, opts...) returns, for an inner sink whose
\* Flush and Close fail or not as fs allows:
\*   queue: make(chan aisen.ErrorEvent, cfg.queueSize), done: make(chan struct{})
\*   s.wg.Add(1); go s.processLoop()
InitSink(opts, fs) ==
    /\ cfg = ApplyOptions(opts, [opts |-> opts, queueSize |-> DefaultQueueSize])
    /\ queue = <<>>
    /\ queueClosed = FALSE
    /\ queueCloses = 0
    /\ doneClosed = FALSE
    /\ doneCloses = 0
    /\ closed = FALSE
    /\ once = "idle"
    /\ worker = [w \in Workers |-> [pc |-> "select", ev |-> NoEvent]]
    /\ prod = [p \in Producers |-> IdleProducer]
    /\ closer = [c \in Closers |-> [pc |-> "idle", res |-> "none"]]
    /\ flusher = IdleFlusher
    /\ ctxCancelled = FALSE
    /\ tickReady = FALSE
    /\ \E f \in fs :
          inner = [fails |-> f, writes |-> <<>>, busy |-> {}, flushes |-> 0,
                   closes |-> 0, closed |-> FALSE, writeAfterClose |-> FALSE]
    /\ dropLog = [calls |-> 0, events |-> {}]
    /\ enqueued = <<>>
    /\ nextId = 1
    /\ queuedAtClose = <<>>

\* NewAsyncSink(inner, WithQueueSize(QueueSize)) with the other components at
\* rest.
InitAsync ==
    /\ InitSink(<<QueueSize>>, BOOLEAN)
    /\ MultiAtRest
    /\ CollectorAtRest
    /\ BufferAtRest
    /\ PureAtRest
    /\ RunAtRest

\* ------------------------------------------------------------ asyncSink.Write

\* WriteCall with the closed check left out: the event goes to the queue
\* whatever s.closed is.
WriteCallIgnoresClosed(p) ==
    /\ prod[p].pc \in {"idle", "returned"}
    /\ nextId <= MaxEvents
    /\ prod' = [prod EXCEPT ![p] = [IdleProducer EXCEPT !.ev = nextId,
                                                         !.late = closed,
                                                         !.pc = "send"]]
    /\ nextId' = nextId + 1
    /\ flusher' = IF flusher.pc \in {"idle", "returned"} THEN flusher
                  ELSE [flusher EXCEPT !.overlap = TRUE]
    /\ UNCHANGED <<queue, queueClosed, queueCloses, doneClosed, doneCloses, closed,
                   once, worker, closer, ctxCancelled, tickReady, inner, dropLog,
                   enqueued, queuedAtClose>>
    /\ UNCHANGED <<cfg, otherVars>>

\* Write is called with a fresh event:
\*   s.closeMu.Lock(); if s.closed { ...; return errors.New("async sink is closed") }
\*   s.closeMu.Unlock()
\* late records that the sink was already marked closed when the call began.
WriteCall(p) ==
    /\ prod[p].pc \in {"idle", "returned"}
    /\ nextId <= MaxEvents
    /\ prod' = [prod EXCEPT ![p] =
                   [IdleProducer EXCEPT !.ev = nextId,
                                        !.late = closed,
                                        !.pc = IF closed THEN "returned" ELSE "send",
                                        !.res = IF closed THEN "err" ELSE "none"]]
    /\ nextId' = nextId + 1
    /\ flusher' = IF flusher.pc \in {"idle", "returned"} THEN flusher
                  ELSE [flusher EXCEPT !.overlap = TRUE]
    /\ UNCHANGED <<queue, queueClosed, queueCloses, doneClosed, doneCloses, closed,
                   once, worker, closer, ctxCancelled, tickReady, inner, dropLog,
                   enqueued, queuedAtClose>>
    /\ UNCHANGED <<cfg, otherVars>>

\* WriteSend with a blocking send: the producer waits until the queue has room.
WriteSendBlocking(p) ==
    /\ prod[p].pc = "send"
    /\ ~queueClosed
    /\ Len(queue) < cfg.queueSize
    /\ queue' = Append(queue, prod[p].ev)
    /\ enqueued' = Append(enqueued, prod[p].ev)
    /\ prod' = [prod EXCEPT ![p].pc = "returned", ![p].res = "nil", ![p].enq = TRUE]
    /\ UNCHANGED <<queueClosed, queueCloses, doneClosed, doneCloses, closed, once,
                   worker, closer, flusher, ctxCancelled, tickReady, inner, dropLog,
                   nextId, queuedAtClose>>
    /\ UNCHANGED <<cfg, otherVars>>

\* select { case s.queue <- event: return nil; default: s.dropOldestAndEnqueue(event) }
\* A send on a closed channel panics; a send on a full one takes the default.
WriteSend(p) ==
    /\ prod[p].pc = "send"
    /\ IF queueClosed
       THEN /\ prod' = [prod EXCEPT ![p].pc = "panicked", ![p].res = "panic"]
            /\ UNCHANGED <<queue, enqueued>>
       ELSE IF Len(queue) < cfg.queueSize
       THEN /\ queue' = Append(queue, prod[p].ev)
            /\ enqueued' = Append(enqueued, prod[p].ev)
            /\ prod' = [prod EXCEPT ![p].pc = "returned", ![p].res = "nil",
                                    ![p].enq = TRUE]
       ELSE /\ prod' = [prod EXCEPT ![p].pc = "evict", ![p].full = TRUE]
            /\ UNCHANGED <<queue, enqueued>>
    /\ UNCHANGED <<queueClosed, queueCloses, doneClosed, doneCloses, closed, once,
                   worker, closer, flusher, ctxCancelled, tickReady, inner, dropLog, nextId,
                   queuedAtClose>>
    /\ UNCHANGED <<cfg, otherVars>>

\* WriteEvict receiving from the wrong end: the newest queued event is dropped.
WriteEvictNewest(p) ==
    /\ prod[p].pc = "evict"
    /\ IF Len(queue) > 0
       THEN /\ queue' = SubSeq(queue, 1, Len(queue) - 1)
            /\ dropLog' = [calls |-> dropLog.calls + 1,
                           events |-> dropLog.events \cup {queue[Len(queue)]}]
            /\ prod' = [prod EXCEPT ![p].pc = "resend",
                                    ![p].evicted = <<queue[Len(queue)]>>,
                                    ![p].oldest = IsOldest(queue[Len(queue)], queue),
                                    ![p].cb = @ + 1]
       ELSE /\ prod' = [prod EXCEPT ![p].pc = "resend"]
            /\ UNCHANGED <<queue, dropLog>>
    /\ UNCHANGED <<queueClosed, queueCloses, doneClosed, doneCloses, closed, once,
                   worker, closer, flusher, ctxCancelled, tickReady, inner, enqueued,
                   nextId, queuedAtClose>>
    /\ UNCHANGED <<cfg, otherVars>>

\* dropOldestAndEnqueue, first select:
\*   select { case <-s.queue: s.onDropped(1); default: }
\* A receive takes the head of the channel; on a closed and empty channel it
\* succeeds at once with the zero value, so the callback runs for no event.
WriteEvict(p) ==
    /\ prod[p].pc = "evict"
    /\ IF Len(queue) > 0
       THEN /\ queue' = Tail(queue)
            /\ dropLog' = [calls |-> dropLog.calls + 1,
                           events |-> dropLog.events \cup {Head(queue)}]
            /\ prod' = [prod EXCEPT ![p].pc = "resend",
                                    ![p].evicted = <<Head(queue)>>,
                                    ![p].oldest = IsOldest(Head(queue), queue),
                                    ![p].cb = @ + 1]
       ELSE IF queueClosed
       THEN /\ dropLog' = [dropLog EXCEPT !.calls = @ + 1]
            /\ prod' = [prod EXCEPT ![p].pc = "resend", ![p].cb = @ + 1]
            /\ UNCHANGED queue
       ELSE /\ prod' = [prod EXCEPT ![p].pc = "resend"]
            /\ UNCHANGED <<queue, dropLog>>
    /\ UNCHANGED <<queueClosed, queueCloses, doneClosed, doneCloses, closed, once,
                   worker, closer, flusher, ctxCancelled, tickReady, inner, enqueued, nextId,
                   queuedAtClose>>
    /\ UNCHANGED <<cfg, otherVars>>

\* WriteResend finding no room while one slot is free: the send is tried
\* against a queue that counts as full one event early.
WriteResendNoRoom(p) ==
    /\ prod[p].pc = "resend"
    /\ IF queueClosed
       THEN /\ prod' = [prod EXCEPT ![p].pc = "panicked", ![p].res = "panic"]
            /\ UNCHANGED <<queue, enqueued, dropLog>>
       ELSE IF Len(queue) < cfg.queueSize - 1
       THEN /\ queue' = Append(queue, prod[p].ev)
            /\ enqueued' = Append(enqueued, prod[p].ev)
            /\ prod' = [prod EXCEPT ![p].pc = "returned", ![p].res = "nil",
                                    ![p].enq = TRUE]
            /\ UNCHANGED dropLog
       ELSE /\ dropLog' = [calls |-> dropLog.calls + 1,
                           events |-> dropLog.events \cup {prod[p].ev}]
            /\ prod' = [prod EXCEPT ![p].pc = "returned", ![p].res = "nil",
                                    ![p].cb = @ + 1]
            /\ UNCHANGED <<queue, enqueued>>
    /\ UNCHANGED <<queueClosed, queueCloses, doneClosed, doneCloses, closed, once,
                   worker, closer, flusher, ctxCancelled, tickReady, inner, nextId,
                   queuedAtClose>>
    /\ UNCHANGED <<cfg, otherVars>>

\* dropOldestAndEnqueue, second select:
\*   select { case s.queue <- event: default: s.onDropped(1) }
\* and Write's return nil.
WriteResend(p) ==
    /\ prod[p].pc = "resend"
    /\ IF queueClosed
       THEN /\ prod' = [prod EXCEPT ![p].pc = "panicked", ![p].res = "panic"]
            /\ UNCHANGED <<queue, enqueued, dropLog>>
       ELSE IF Len(queue) < cfg.queueSize
       THEN /\ queue' = Append(queue, prod[p].ev)
            /\ enqueued' = Append(enqueued, prod[p].ev)
            /\ prod' = [prod EXCEPT ![p].pc = "returned", ![p].res = "nil",
                                    ![p].enq = TRUE]
            /\ UNCHANGED dropLog
       ELSE /\ dropLog' = [calls |-> dropLog.calls + 1,
                           events |-> dropLog.events \cup {prod[p].ev}]
            /\ prod' = [prod EXCEPT ![p].pc = "returned", ![p].res = "nil",
                                    ![p].cb = @ + 1]
            /\ UNCHANGED <<queue, enqueued>>
    /\ UNCHANGED <<queueClosed, queueCloses, doneClosed, doneCloses, closed, once,
                   worker, closer, flusher, ctxCancelled, tickReady, inner, nextId,
                   queuedAtClose>>
    /\ UNCHANGED <<cfg, otherVars>>

\* One step of a producer that is inside Write.
WriteStep(p) ==
    \/ WriteSend(p)
    \/ WriteEvict(p)
    \/ WriteResend(p)

\* ------------------------------------------------------ asyncSink.processLoop

\* WorkerReceive receiving from the wrong end: the newest queued event is
\* taken first.
WorkerReceiveNewest(w) ==
    /\ worker[w].pc = "select"
    /\ Len(queue) > 0 \/ queueClosed
    /\ IF Len(queue) > 0
       THEN /\ queue' = SubSeq(queue, 1, Len(queue) - 1)
            /\ worker' = [worker EXCEPT ![w] = [pc |-> "write",
                                                ev |-> queue[Len(queue)]]]
            /\ inner' = [inner EXCEPT !.busy = @ \cup {w},
                                      !.writeAfterClose = @ \/ inner.closed]
       ELSE /\ worker' = [worker EXCEPT ![w].pc = "exited"]
            /\ UNCHANGED <<queue, inner>>
    /\ UNCHANGED <<queueClosed, queueCloses, doneClosed, doneCloses, closed, once,
                   prod, closer, flusher, ctxCancelled, tickReady, dropLog, enqueued, nextId,
                   queuedAtClose>>
    /\ UNCHANGED <<cfg, otherVars>>

\* The outer select, case event, ok := <-s.queue: a queued event is received
\* and s.inner.Write is called with it; a closed and empty queue ends the loop.
WorkerReceive(w) ==
    /\ worker[w].pc = "select"
    /\ Len(queue) > 0 \/ queueClosed
    /\ IF Len(queue) > 0
       THEN /\ queue' = Tail(queue)
            /\ worker' = [worker EXCEPT ![w] = [pc |-> "write", ev |-> Head(queue)]]
            /\ inner' = [inner EXCEPT !.busy = @ \cup {w},
                                      !.writeAfterClose = @ \/ inner.closed]
       ELSE /\ worker' = [worker EXCEPT ![w].pc = "exited"]
            /\ UNCHANGED <<queue, inner>>
    /\ UNCHANGED <<queueClosed, queueCloses, doneClosed, doneCloses, closed, once,
                   prod, closer, flusher, ctxCancelled, tickReady, dropLog, enqueued, nextId,
                   queuedAtClose>>
    /\ UNCHANGED <<cfg, otherVars>>

\* s.inner.Write returns; its error is discarded.
WorkerWriteReturn(w) ==
    /\ worker[w].pc \in {"write", "drainWrite"}
    /\ inner' = [inner EXCEPT !.writes = Append(@, worker[w].ev),
                              !.busy = @ \ {w}]
    /\ worker' = [worker EXCEPT ![w] = [pc |-> IF worker[w].pc = "write"
                                               THEN "select" ELSE "drain",
                                        ev |-> NoEvent]]
    /\ UNCHANGED <<queue, queueClosed, queueCloses, doneClosed, doneCloses, closed,
                   once, prod, closer, flusher, ctxCancelled, tickReady, dropLog, enqueued,
                   nextId, queuedAtClose>>
    /\ UNCHANGED <<cfg, otherVars>>

\* The outer select, case <-s.done.
WorkerDone(w) ==
    /\ worker[w].pc = "select"
    /\ doneClosed
    /\ worker' = [worker EXCEPT ![w].pc = "drain"]
    /\ UNCHANGED <<queue, queueClosed, queueCloses, doneClosed, doneCloses, closed,
                   once, prod, closer, flusher, ctxCancelled, tickReady, inner, dropLog,
                   enqueued, nextId, queuedAtClose>>
    /\ UNCHANGED <<cfg, otherVars>>

\* The drain loop: select { case event, ok := <-s.queue: ...; default: return }
\* and the deferred s.wg.Done().
WorkerDrain(w) ==
    /\ worker[w].pc = "drain"
    /\ IF Len(queue) > 0
       THEN /\ queue' = Tail(queue)
            /\ worker' = [worker EXCEPT ![w] = [pc |-> "drainWrite",
                                                ev |-> Head(queue)]]
            /\ inner' = [inner EXCEPT !.busy = @ \cup {w},
                                      !.writeAfterClose = @ \/ inner.closed]
       ELSE /\ worker' = [worker EXCEPT ![w].pc = "exited"]
            /\ UNCHANGED <<queue, inner>>
    /\ UNCHANGED <<queueClosed, queueCloses, doneClosed, doneCloses, closed, once,
                   prod, closer, flusher, ctxCancelled, tickReady, dropLog, enqueued, nextId,
                   queuedAtClose>>
    /\ UNCHANGED <<cfg, otherVars>>

\* ------------------------------------------------------------ asyncSink.Close

\* Close is called: s.closeOnce.Do(func() {...}).  The first caller runs the
\* function, which starts with
\*   s.closeMu.Lock(); s.closed = true; s.closeMu.Unlock()
\* A caller that arrives while the function runs waits for it to return; one
\* that arrives later skips it.
CloseOnce(c) ==
    /\ closer[c].pc = "idle"
    /\ once # "running"
    /\ IF once = "idle"
       THEN /\ once' = "running"
            /\ closed' = TRUE
            /\ queuedAtClose' = queue
            /\ closer' = [closer EXCEPT ![c].pc = "signal"]
       ELSE /\ closer' = [closer EXCEPT ![c].pc = "inner"]
            /\ UNCHANGED <<once, closed, queuedAtClose>>
    /\ UNCHANGED <<queue, queueClosed, queueCloses, doneClosed, doneCloses,
                   worker, prod, flusher, ctxCancelled, tickReady, inner, dropLog, enqueued,
                   nextId>>
    /\ UNCHANGED <<cfg, otherVars>>

\* close(s.done)
CloseSignal(c) ==
    /\ closer[c].pc = "signal"
    /\ doneClosed' = TRUE
    /\ doneCloses' = doneCloses + 1
    /\ closer' = [closer EXCEPT ![c].pc = "wait"]
    /\ UNCHANGED <<queue, queueClosed, queueCloses, closed, once, worker, prod,
                   flusher, ctxCancelled, tickReady, inner, dropLog, enqueued, nextId,
                   queuedAtClose>>
    /\ UNCHANGED <<cfg, otherVars>>

\* s.wg.Wait(); close(s.queue); and the function given to closeOnce.Do returns.
CloseQueue(c) ==
    /\ closer[c].pc = "wait"
    /\ \A w \in Workers : worker[w].pc = "exited"
    /\ queueClosed' = TRUE
    /\ queueCloses' = queueCloses + 1
    /\ once' = "done"
    /\ closer' = [closer EXCEPT ![c].pc = "inner"]
    /\ UNCHANGED <<queue, doneClosed, doneCloses, closed, worker, prod, flusher,
                   ctxCancelled, tickReady, inner, dropLog, enqueued, nextId, queuedAtClose>>
    /\ UNCHANGED <<cfg, otherVars>>

\* return s.inner.Close()
CloseInner(c) ==
    /\ closer[c].pc = "inner"
    /\ inner' = [inner EXCEPT !.closes = @ + 1, !.closed = TRUE]
    /\ closer' = [closer EXCEPT ![c] = [pc |-> "returned", res |-> InnerResult]]
    /\ UNCHANGED <<queue, queueClosed, queueCloses, doneClosed, doneCloses, closed,
                   once, worker, prod, flusher, ctxCancelled, tickReady, dropLog, enqueued,
                   nextId, queuedAtClose>>
    /\ UNCHANGED <<cfg, otherVars>>

\* ------------------------------------------------------------ asyncSink.Flush

\* Flush is called with a context that is live or already done:
\*   ticker := time.NewTicker(10 * time.Millisecond)
FlushCall ==
    /\ flusher.pc = "idle"
    /\ \E done \in BOOLEAN : ctxCancelled' = done
    /\ tickReady' = FALSE
    /\ flusher' = [IdleFlusher EXCEPT
                      !.pc = "select",
                      !.overlap = \E p \in Producers : InWrite(p),
                      !.afterClose = \E c \in Closers : closer[c].pc = "returned"]
    /\ UNCHANGED <<queue, queueClosed, queueCloses, doneClosed, doneCloses, closed,
                   once, worker, prod, closer, inner, dropLog, enqueued, nextId,
                   queuedAtClose>>
    /\ UNCHANGED <<cfg, otherVars>>

\* The caller's context is cancelled or reaches its deadline.  A Flush that is
\* parked in its select is woken by it and has taken the case <-ctx.Done().
CtxCancel ==
    /\ flusher.pc \in {"select", "blocked", "ticked", "sleep"}
    /\ ~ctxCancelled
    /\ ctxCancelled' = TRUE
    /\ flusher' = IF flusher.pc = "blocked"
                  THEN [flusher EXCEPT !.pc = "ctxDone"] ELSE flusher
    /\ UNCHANGED <<queue, queueClosed, queueCloses, doneClosed, doneCloses, closed,
                   once, worker, prod, closer, tickReady, inner, dropLog, enqueued,
                   nextId, queuedAtClose>>
    /\ UNCHANGED <<cfg, otherVars>>

\* Ten milliseconds pass and the ticker ticks.  A Flush that is parked in its
\* select is woken by it and has taken the case <-ticker.C; otherwise the tick
\* waits in the ticker's channel, which holds one.
TickerFire ==
    /\ flusher.pc \in {"select", "blocked", "ticked"}
    /\ ~tickReady
    /\ IF flusher.pc = "blocked"
       THEN /\ flusher' = [flusher EXCEPT !.pc = "ticked"]
            /\ UNCHANGED tickReady
       ELSE /\ tickReady' = TRUE
            /\ UNCHANGED flusher
    /\ UNCHANGED <<queue, queueClosed, queueCloses, doneClosed, doneCloses, closed,
                   once, worker, prod, closer, ctxCancelled, inner, dropLog,
                   enqueued, nextId, queuedAtClose>>
    /\ UNCHANGED <<cfg, otherVars>>

\* Flush reaches select { case <-ctx.Done(): ...; case <-ticker.C: ... }: one
\* of the cases that are ready is taken, either one when both are; with none
\* ready Flush parks until the context is done or the ticker ticks.
FlushSelect ==
    /\ flusher.pc = "select"
    /\ \/ /\ ctxCancelled
          /\ flusher' = [flusher EXCEPT !.pc = "ctxDone"]
          /\ UNCHANGED tickReady
       \/ /\ tickReady
          /\ tickReady' = FALSE
          /\ flusher' = [flusher EXCEPT !.pc = "ticked"]
       \/ /\ ~ctxCancelled
          /\ ~tickReady
          /\ flusher' = [flusher EXCEPT !.pc = "blocked"]
          /\ UNCHANGED tickReady
    /\ UNCHANGED <<queue, queueClosed, queueCloses, doneClosed, doneCloses, closed,
                   once, worker, prod, closer, ctxCancelled, inner, dropLog,
                   enqueued, nextId, queuedAtClose>>
    /\ UNCHANGED <<cfg, otherVars>>

\* case <-ctx.Done(): return ctx.Err()
FlushCtxDone ==
    /\ flusher.pc = "ctxDone"
    /\ flusher' = [flusher EXCEPT !.pc = "returned", !.res = "ctxErr"]
    /\ UNCHANGED <<queue, queueClosed, queueCloses, doneClosed, doneCloses, closed,
                   once, worker, prod, closer, ctxCancelled, tickReady, inner,
                   dropLog, enqueued, nextId, queuedAtClose>>
    /\ UNCHANGED <<cfg, otherVars>>

\* case <-ticker.C: if len(s.queue) == 0 {...}; otherwise round the loop.
\* cancelledFirst records that the context was done before the queue was seen
\* empty.
FlushTick ==
    /\ flusher.pc = "ticked"
    /\ flusher' = IF Len(queue) = 0
                  THEN [flusher EXCEPT !.pc = "sleep",
                                       !.cancelledFirst = ctxCancelled]
                  ELSE [flusher EXCEPT !.pc = "select"]
    /\ UNCHANGED <<queue, queueClosed, queueCloses, doneClosed, doneCloses, closed,
                   once, worker, prod, closer, ctxCancelled, tickReady, inner,
                   dropLog, enqueued, nextId, queuedAtClose>>
    /\ UNCHANGED <<cfg, otherVars>>

\* time.Sleep(10 * time.Millisecond); return s.inner.Flush(ctx)
\* pending records that an accepted event had not reached the inner sink when
\* its Flush was called.
FlushInner ==
    /\ flusher.pc = "sleep"
    /\ flusher' = [flusher EXCEPT !.pc = "returned", !.res = InnerResult,
                                  !.innerCalled = TRUE,
                                  !.pending = (Undelivered # {})]
    /\ inner' = [inner EXCEPT !.flushes = @ + 1]
    /\ UNCHANGED <<queue, queueClosed, queueCloses, doneClosed, doneCloses, closed,
                   once, worker, prod, closer, ctxCancelled, tickReady, dropLog,
                   enqueued, nextId, queuedAtClose>>
    /\ UNCHANGED <<cfg, otherVars>>

\* ------------------------------------------------------- the specifications

\* Producers, the drain goroutine and the callers of Close.  Flush writes no
\* state that Write, processLoop or Close read, so leaving its caller out
\* removes none of their behaviours.
NextAsync ==
    \/ \E p \in Producers : WriteCall(p)
    \/ \E p \in Producers : WriteSend(p)
    \/ \E p \in Producers : WriteEvict(p)
    \/ \E p \in Producers : WriteResend(p)
    \/ \E w \in Workers : WorkerReceive(w)
    \/ \E w \in Workers : WorkerWriteReturn(w)
    \/ \E w \in Workers : WorkerDone(w)
    \/ \E w \in Workers : WorkerDrain(w)
    \/ \E c \in Closers : CloseOnce(c)
    \/ \E c \in Closers : CloseSignal(c)
    \/ \E c \in Closers : CloseQueue(c)
    \/ \E c \in Closers : CloseInner(c)

SpecAsync == InitAsync /\ [][NextAsync]_vars

\* The producer that writes while Flush is studied.
FlushProducers == {"p1"}

\* A caller of Flush beside one producer, the drain goroutine and the callers
\* of Close.
NextFlush ==
    \/ \E p \in FlushProducers : WriteCall(p)
    \/ \E p \in FlushProducers : WriteSend(p)
    \/ \E p \in FlushProducers : WriteEvict(p)
    \/ \E p \in FlushProducers : WriteResend(p)
    \/ \E w \in Workers : WorkerReceive(w)
    \/ \E w \in Workers : WorkerWriteReturn(w)
    \/ \E w \in Workers : WorkerDone(w)
    \/ \E w \in Workers : WorkerDrain(w)
    \/ \E c \in Closers : CloseOnce(c)
    \/ \E c \in Closers : CloseSignal(c)
    \/ \E c \in Closers : CloseQueue(c)
    \/ \E c \in Closers : CloseInner(c)
    \/ FlushCall
    \/ CtxCancel
    \/ TickerFire
    \/ FlushSelect
    \/ FlushCtxDone
    \/ FlushTick
    \/ FlushInner

SpecFlush == InitAsync /\ [][NextFlush]_vars

\* The steps the scheduler and the clock take when they can: a goroutine
\* that is inside Write, processLoop, Close or Flush and can go on does go
\* on, and the ticker ticks.  Nothing makes a caller call Write, Close or
\* Flush, or cancel its context.
WriterStep == \E p \in FlushProducers : WriteStep(p)

WorkerStep ==
    \E w \in Workers :
        \/ WorkerReceive(w)
        \/ WorkerWriteReturn(w)
        \/ WorkerDone(w)
        \/ WorkerDrain(w)

CloserStep(c) == CloseSignal(c) \/ CloseQueue(c) \/ CloseInner(c)

FlusherStep == FlushSelect \/ FlushCtxDone \/ FlushTick \/ FlushInner

SpecFlushFair ==
    /\ SpecFlush
    /\ WF_vars(WriterStep)
    /\ WF_vars(WorkerStep)
    /\ \A c \in Closers : WF_vars(CloserStep(c))
    /\ WF_vars(FlusherStep)
    /\ WF_vars(TickerFire)

\* NewAsyncSink called with any of the options, then producers and the drain
\* goroutine.
InitCapacity ==
    /\ \E opts \in QueueOptions : InitSink(opts, {FALSE})
    /\ MultiAtRest
    /\ CollectorAtRest
    /\ BufferAtRest
    /\ PureAtRest
    /\ RunAtRest

NextCapacity ==
    \/ \E p \in Producers : WriteCall(p)
    \/ \E p \in Producers : WriteSend(p)
    \/ \E p \in Producers : WriteEvict(p)
    \/ \E p \in Producers : WriteResend(p)
    \/ \E w \in Workers : WorkerReceive(w)
    \/ \E w \in Workers : WorkerWriteReturn(w)

SpecCapacity == InitCapacity /\ [][NextCapacity]_vars

\* ------------------------------------------------------------------ multiSink

\* The sinks a multi sink can be given as children.
SinkIds == 1 .. MaxSinks

\* The argument lists of NewMultiSink: distinct sinks in any order, none to
\* MaxSinks of them.
SinkLists ==
    {l \in UNION {[1 .. k -> SinkIds] : k \in 0 .. MaxSinks} :
        \A a, b \in 1 .. Len(l) : a # b => l[a] # l[b]}

\* The operations of a Sink.
SinkOps == {"write", "flush", "close"}

\* A nil error.
NilError == [kind |-> "nil"]

\* The error child c returns when its operation fails, a value of its own
\* (errors.New("sink1 error") in the tests).
ChildError(c) == [kind |-> "leaf", id |-> c]

\* errors.Join keeping only the first error.
ErrorsJoinFirst(errs) ==
    IF errs = <<>> THEN NilError ELSE errs[1]

\* errors.Join(errs...): nil when there is no error, otherwise one error that
\* wraps all of them.
ErrorsJoin(errs) ==
    IF errs = <<>> THEN NilError ELSE [kind |-> "join", errs |-> errs]

\* errors.Is(err, target): err is target, or err wraps errors one of which is.
ErrorsIs(err, target) ==
    \/ err = target
    \/ /\ err.kind = "join"
       /\ \E k \in 1 .. Len(err.errs) : err.errs[k] = target

\* A multi sink is made of any of the argument lists; the async sink is at rest.
InitMulti ==
    /\ InitSink(<<QueueSize>>, {FALSE})
    /\ CollectorAtRest
    /\ BufferAtRest
    /\ \E l \in SinkLists : multi = NewMultiSink(l)
    /\ PureAtRest
    /\ RunAtRest

\* Write, Flush or Close is called: var errs []error
MultiCall(op) ==
    /\ multi.pc \in {"idle", "returned"}
    /\ multi.calls < MaxCalls
    /\ multi' = [NewMultiSink(multi.sinks) EXCEPT !.pc = "loop", !.op = op,
                                                  !.calls = multi.calls + 1]
    /\ UNCHANGED <<asyncVars, collVars, ringVars, pureVars, runVars, storeVars>>

\* MultiChild returning at the first error.
MultiChildShortCircuit ==
    /\ multi.pc = "loop"
    /\ multi.i <= Len(multi.sinks)
    /\ \E fails \in BOOLEAN :
          multi' = [multi EXCEPT
                       !.log = Append(@, multi.sinks[multi.i]),
                       !.i = IF fails THEN Len(multi.sinks) + 1 ELSE @ + 1,
                       !.failed = IF fails THEN @ \cup {multi.sinks[multi.i]} ELSE @,
                       !.errs = IF fails THEN Append(@, ChildError(multi.sinks[multi.i]))
                                ELSE @]
    /\ UNCHANGED <<asyncVars, collVars, ringVars, pureVars, runVars, storeVars>>

\* One round of for _, sink := range s.sinks:
\*   if err := sink.Write(ctx, event); err != nil { errs = append(errs, err) }
\* (sink.Flush(ctx) and sink.Close() in Flush and Close).  The child's
\* operation fails or succeeds.
MultiChild ==
    /\ multi.pc = "loop"
    /\ multi.i <= Len(multi.sinks)
    /\ \E fails \in BOOLEAN :
          multi' = [multi EXCEPT
                       !.log = Append(@, multi.sinks[multi.i]),
                       !.i = @ + 1,
                       !.failed = IF fails THEN @ \cup {multi.sinks[multi.i]} ELSE @,
                       !.errs = IF fails THEN Append(@, ChildError(multi.sinks[multi.i]))
                                ELSE @]
    /\ UNCHANGED <<asyncVars, collVars, ringVars, pureVars, runVars, storeVars>>

\* The loop is over: return errors.Join(errs...)
MultiReturn ==
    /\ multi.pc = "loop"
    /\ multi.i > Len(multi.sinks)
    /\ multi' = [multi EXCEPT !.pc = "returned", !.res = ErrorsJoin(multi.errs)]
    /\ UNCHANGED <<asyncVars, collVars, ringVars, pureVars, runVars, storeVars>>

NextMulti ==
    \/ \E op \in SinkOps : MultiCall(op)
    \/ MultiChild
    \/ MultiReturn

SpecMulti == InitMulti /\ [][NextMulti]_vars

\* ------------------------------------------------------- strings and events

\* A string is a sequence of units.  In a message "c" is a character no
\* pattern matches and "s" a match of one of messageScrubPatterns.  In a stack
\* trace a unit is a line: "h" the goroutine header, "p" a source-location
\* line under /home/<user>/, "f" a function line, "a" a function line with a
\* memory address among its arguments, "u" a function line whose import path
\* has a /home/<user>/ segment.  "R", "R" is "[REDACTED]", "q", "b" and "v" are
\* the lines "p", "a" and "u" after ScrubStackTrace has rewritten them, and "l"
\* is the source-location line "p" with another line number and offset.  In
\* ErrorType, Operation, AgentName and ToolName "x" is a character and "|" the
\* character '|'.
MessageUnits == {"c", "s"}

\* The lines of the stack traces that are recorded.
TraceUnits == {"p", "a", "u"}

\* The longest message and the longest stack trace a caller records.
MaxMessageLen == 2

MaxTraceLen == 2

\* The strings over units us of length at most n.
StringsOver(us, n) == UNION {[1 .. k -> us] : k \in 0 .. n}

\* marker := "...[TRUNCATED]", two units long here.
Marker == <<"T", "T">>

\* The outcome of a call that panics instead of returning a string.
Panic == <<"!panic">>

\* truncateWithMarker(s, maxLen):
\*   if len(s) <= maxLen { return s }
\*   if maxLen <= len(marker) { return marker[:maxLen] }
\*   return s[:maxLen-len(marker)] + marker
\* marker[:maxLen] with a negative maxLen is a run-time panic (slice bounds
\* out of range).
TruncateWithMarker(str, maxLen) ==
    IF Len(str) <= maxLen THEN str
    ELSE IF maxLen <= Len(Marker)
         THEN (IF maxLen < 0 THEN Panic ELSE SubSeq(Marker, 1, maxLen))
         ELSE SubSeq(str, 1, maxLen - Len(Marker)) \o Marker

\* "[REDACTED]", two units long here: longer than the match "s" it replaces
\* (an e-mail address such as a@b.co has 6 bytes, "[REDACTED]" has 10).
Redacted == <<"R", "R">>

\* for _, pattern := range messageScrubPatterns {
\*     result = pattern.ReplaceAllString(result, "[REDACTED]") }
RECURSIVE RedactPatterns(_)
RedactPatterns(msg) ==
    IF msg = <<>> THEN <<>>
    ELSE (IF Head(msg) = "s" THEN Redacted ELSE <<Head(msg)>>)
         \o RedactPatterns(Tail(msg))

\* Scrubber.ScrubMessage
ScrubMessage(sc, msg) ==
    IF ~sc.ScrubMessages THEN msg
    ELSE LET cut == IF Len(msg) > sc.MaxMessageSize
                    THEN TruncateWithMarker(msg, sc.MaxMessageSize) ELSE msg
         IN  IF cut = Panic THEN Panic ELSE RedactPatterns(cut)

\* The path patterns and the memory-address pattern of ScrubStackTrace, line
\* by line: /home/<user>/ becomes /[PATH]/ and 0x1234 becomes 0x...
NormalizePaths(trace) ==
    [k \in 1 .. Len(trace) |->
        CASE trace[k] = "p" -> "q"
          [] trace[k] = "a" -> "b"
          [] trace[k] = "u" -> "v"
          [] OTHER -> trace[k]]

\* Scrubber.ScrubStackTrace
ScrubStackTrace(sc, trace) ==
    IF trace = <<>> THEN trace
    ELSE LET result == NormalizePaths(trace)
         IN  IF Len(result) > sc.MaxStackTraceSize
             THEN TruncateWithMarker(result, sc.MaxStackTraceSize)
             ELSE result

\* The metadata keys callers use.
MetaKeys == {"request_id", "auth_token"}

\* strings.ToLower(key), for the keys that are used.
ToLower(key) == IF key = "API_KEY" THEN "api_key" ELSE key

\* Scrubber.isSensitiveKey: the lowercased key contains one of
\* sensitiveKeyPatterns ("auth_token" contains "token" and "auth", "api_key"
\* contains "key"; "request_id" and "query" contain none).
IsSensitiveKey(key) == ToLower(key) \in {"auth_token", "api_key"}

\* One value of ScrubMetadata's result:
\*   if s.isSensitiveKey(key) { result[key] = "[REDACTED]" }
\*   else { if len(value) > s.cfg.MaxMetadataKeySize { value = truncateWithMarker(...) } }
ScrubMetaValue(sc, key, value) ==
    IF IsSensitiveKey(key) THEN Redacted
    ELSE IF Len(value) > sc.MaxMetadataKeySize
         THEN TruncateWithMarker(value, sc.MaxMetadataKeySize)
         ELSE value

\* Scrubber.ScrubMetadata: nil for a nil map, otherwise a new map.
ScrubMetadata(sc, meta) ==
    IF meta.isNil THEN meta
    ELSE [isNil |-> FALSE,
          kv |-> [k \in DOMAIN meta.kv |-> ScrubMetaValue(sc, k, meta.kv[k])]]

\* ------------------------------------------------------------------- JSON

\* The generic tree json.Unmarshal builds: a string, a number, an object
\* (map[string]interface{}) or an array ([]interface{}).
JString(m) == [t |-> "string", s |-> m]

JNumber == [t |-> "number"]

JObject(kv) == [t |-> "object", kv |-> kv]

JArray(items) == [t |-> "array", items |-> items]

\* The keys of the objects that are scrubbed.
JsonKeys == {"api_key", "query"}

\* The leaves of the documents: a number and the strings of at most one unit.
JsonScalars == {JNumber} \cup {JString(m) : m \in StringsOver(MessageUnits, 1)}

\* The arrays of the documents: empty or of one leaf.
JsonArrays == {JArray(<<>>)} \cup {JArray(<<v>>) : v \in JsonScalars}

\* The objects of the documents: over any of JsonKeys, a value a leaf or an
\* array.
JsonObjects ==
    {JObject(kv) : kv \in UNION {[ks -> JsonScalars \cup JsonArrays] :
                                     ks \in SUBSET JsonKeys}}

JsonValues == JsonScalars \cup JsonArrays \cup JsonObjects

\* json.Marshal of a tree, a sequence of tokens: map keys come sorted.
RECURSIVE Marshal(_)
Marshal(v) ==
    CASE v.t = "string" -> <<"\"">> \o v.s \o <<"\"">>
      [] v.t = "number" -> <<"7">>
      [] v.t = "array" ->
            <<"[">> \o (IF v.items = <<>> THEN <<>> ELSE Marshal(v.items[1]))
                   \o <<"]">>
      [] v.t = "object" ->
            LET member(k) == IF k \in DOMAIN v.kv
                             THEN <<k, ":">> \o Marshal(v.kv[k]) ELSE <<>>
                comma == IF DOMAIN v.kv = JsonKeys THEN <<",">> ELSE <<>>
            IN  <<"{">> \o member("api_key") \o comma \o member("query")
                       \o <<"}">>

\* Insignificant whitespace, which the parser skips.
StripSpace(text) == SelectSeq(text, LAMBDA u : u # " ")

\* The outcome of json.Unmarshal when err != nil.
JsonError == [t |-> "error"]

\* json.Unmarshal([]byte(jsonStr), &data)
Unmarshal(text) ==
    IF \E v \in JsonValues : Marshal(v) = StripSpace(text)
    THEN CHOOSE v \in JsonValues : Marshal(v) = StripSpace(text)
    ELSE JsonError

\* Texts that are no JSON: the empty string, a cut-off object, a bare word,
\* and an object with a trailing comma.
InvalidTexts ==
    {<<>>, <<"{">>, <<"c">>, <<"{", "query", ":">>,
     <<"{", "query", ":", "7", ",", "}">>}

\* The strings passed to ScrubJSON: documents as json.Marshal writes them,
\* the same after a leading blank, and texts that are no JSON.
JsonTexts ==
    {Marshal(v) : v \in JsonValues}
        \cup {<<" ">> \o Marshal(v) : v \in JsonValues}
        \cup InvalidTexts

\* "[REDACTED:SCRUB_ERROR]"
ScrubError == <<"E">>

\* maxSize := 16384
JSONMaxSize == 16384

\* scrubJSONValue, scrubJSONMap and scrubJSONArray: the value of a sensitive
\* key becomes "[REDACTED]", a string goes through ScrubMessage, a number
\* passes through, objects and arrays are walked.
RECURSIVE ScrubJSONValue(_, _)
ScrubJSONValue(sc, v) ==
    CASE v.t = "string" -> JString(ScrubMessage(sc, v.s))
      [] v.t = "array" ->
            JArray([i \in 1 .. Len(v.items) |-> ScrubJSONValue(sc, v.items[i])])
      [] v.t = "object" ->
            JObject([k \in DOMAIN v.kv |->
                        IF IsSensitiveKey(k) THEN JString(Redacted)
                        ELSE ScrubJSONValue(sc, v.kv[k])])
      [] OTHER -> v

\* ScrubMessage panicked on one of the strings of the tree.
RECURSIVE JsonPanics(_)
JsonPanics(v) ==
    CASE v.t = "string" -> v.s = Panic
      [] v.t = "array" -> \E i \in 1 .. Len(v.items) : JsonPanics(v.items[i])
      [] v.t = "object" -> \E k \in DOMAIN v.kv : JsonPanics(v.kv[k])
      [] OTHER -> FALSE

\* Scrubber.ScrubJSON.  json.Marshal cannot fail on a tree json.Unmarshal
\* built, so of the two error branches only the first is taken.
ScrubJSON(sc, jsonStr) ==
    LET data == Unmarshal(jsonStr)
    IN  IF data = JsonError
        THEN (IF sc.FailClosed THEN ScrubError ELSE jsonStr)
        ELSE LET scrubbed == ScrubJSONValue(sc, data)
                 resultStr == Marshal(scrubbed)
             IN  IF JsonPanics(scrubbed) THEN Panic
                 ELSE IF Len(resultStr) > JSONMaxSize
                      THEN TruncateWithMarker(resultStr, JSONMaxSize)
                      ELSE resultStr

\* normalizeStackTrace: the names of the first three function lines.  Header
\* lines, source-location lines and a line that is only the truncation marker
\* give no frame; "a" and "b" name the same function; the rewritten import
\* path of "v" gives another name than "u".
RECURSIVE FrameNames(_)
FrameNames(trace) ==
    IF trace = <<>> THEN <<>>
    ELSE LET rest == FrameNames(Tail(trace))
             line == Head(trace)
         IN  CASE line \in {"f", "u", "v"} -> <<line>> \o rest
               [] line \in {"a", "b"} -> <<"a">> \o rest
               [] OTHER -> rest

\* normalizeStackTrace without `if len(frames) >= 3 { break }`.
NormalizeStackTraceNoLimit(trace) == FrameNames(trace)

NormalizeStackTrace(trace) ==
    LET names == FrameNames(trace)
    IN  SubSeq(names, 1, IF Len(names) < 3 THEN Len(names) ELSE 3)

\* strings.Join(parts, "|")
RECURSIVE JoinParts(_)
JoinParts(parts) ==
    IF parts = <<>> THEN <<>>
    ELSE IF Len(parts) = 1 THEN parts[1]
    ELSE parts[1] \o <<"|">> \o JoinParts(Tail(parts))

\* Fingerprint(event): the hex of the first 16 bytes of the SHA-256 of the
\* joined parts, taken as a value that differs when the joined string does.
Fingerprint(event) ==
    LET frames == NormalizeStackTrace(event.StackTrace)
        parts == <<event.ErrorType, event.Operation, event.AgentName,
                   event.ToolName>>
                 \o [k \in 1 .. Len(frames) |-> <<frames[k]>>]
    IN  <<"#">> \o JoinParts(parts)

\* ------------------------------------------------------------- the Collector

\* The largest size limit a ScrubberConfig carries.
MaxSize == 3

\* The values of a size limit of ScrubberConfig, an int.
Sizes == -1 .. MaxSize

\* The scrubbers a collector is made with: none, or NewScrubber(cfg) for a
\* ScrubberConfig whose three size limits are one value of Sizes.
Scrubbers ==
    {NoScrubber} \cup
    {[on |-> TRUE, ScrubMessages |-> b, MaxMessageSize |-> n,
      MaxStackTraceSize |-> n, MaxMetadataKeySize |-> n] :
        b \in BOOLEAN, n \in Sizes}

\* The Timestamp a caller sets, and what time.Now() returns during Record.
CallerTime == 5

WallClock == 9

\* The metadata maps callers record: nil, empty, and maps over MetaKeys.
Metadatas ==
    {[isNil |-> TRUE, kv |-> <<>>]} \cup
    {[isNil |-> FALSE, kv |-> [k \in ks |-> <<"c", "c">>]] : ks \in SUBSET MetaKeys}

\* The events callers pass to Record.  A zero Timestamp is 0, an unset
\* EventID or Fingerprint the empty string.
Events ==
    [EventID : {"", "evt-123"},
     Timestamp : {0, CallerTime},
     Fingerprint : {<<>>, <<"#", "x">>},
     ErrorType : {<<"e">>},
     Operation : {<<>>},
     AgentName : {<<>>},
     ToolName : {<<>>, <<"t">>},
     Message : StringsOver(MessageUnits, MaxMessageLen),
     StackTrace : StringsOver(TraceUnits, MaxTraceLen),
     Metadata : Metadatas]

\* A collector is made with any sink and scrubber; the sinks are at rest.
InitCollector ==
    /\ InitSink(<<QueueSize>>, {FALSE})
    /\ MultiAtRest
    /\ BufferAtRest
    /\ \E b \in BOOLEAN, sc \in Scrubbers : coll = NewCollector(b, sc)
    /\ input = ZeroEvent
    /\ PureAtRest
    /\ RunAtRest

\* Record with the defaulting of EventID left out of its condition: a new
\* EventID is assigned always.
DefaultIdentityAlways(event) ==
    [event EXCEPT !.EventID = "generated-uuid",
                  !.Timestamp = IF @ = 0 THEN WallClock ELSE @]

\* if event.EventID == "" { event.EventID = uuid.NewString() }
\* if event.Timestamp.IsZero() { event.Timestamp = time.Now() }
DefaultIdentity(event) ==
    [event EXCEPT !.EventID = IF @ = "" THEN "generated-uuid" ELSE @,
                  !.Timestamp = IF @ = 0 THEN WallClock ELSE @]

\* if c.scrubber != nil { event.Message = c.scrubber.ScrubMessage(event.Message); ... }
ScrubEvent(sc, event) ==
    IF ~sc.on THEN event
    ELSE [event EXCEPT !.Message = ScrubMessage(sc, @),
                       !.StackTrace = ScrubStackTrace(sc, @),
                       !.Metadata = ScrubMetadata(sc, @)]

\* One of the scrubbers panicked on this event.
ScrubPanics(event) ==
    \/ event.Message = Panic
    \/ event.StackTrace = Panic
    \/ /\ ~event.Metadata.isNil
       /\ \E k \in DOMAIN event.Metadata.kv : event.Metadata.kv[k] = Panic

\* Record computing the fingerprint before it scrubs.
FinalizeFingerprintFirst(sc, event) ==
    [ScrubEvent(sc, DefaultIdentity(event)) EXCEPT
        !.Fingerprint = Fingerprint(DefaultIdentity(event))]

\* The event Record hands to the sink: identity defaulted, scrubbed, and then
\*   event.Fingerprint = Fingerprint(event)
Finalize(sc, event) ==
    LET scrubbed == ScrubEvent(sc, DefaultIdentity(event))
    IN  [scrubbed EXCEPT !.Fingerprint = Fingerprint(scrubbed)]

\* defaultCollector.Record(ctx, event), the whole call, for any event.  A
\* panic in a scrubber ends the call before the sink is reached; otherwise
\* the sink's Write is called with the finalized event and its result is
\* returned.  The noop sink returns nil, a configured sink nil or an error.
Record ==
    /\ coll.pc = "idle"
    /\ \E event \in Events :
          /\ input' = event
          /\ IF ScrubPanics(ScrubEvent(coll.scrubber, DefaultIdentity(event)))
             THEN coll' = [coll EXCEPT !.pc = "panicked", !.res = "panic"]
             ELSE \E r \in (IF coll.sinkSet THEN {"nil", "sinkErr"} ELSE {"nil"}) :
                     coll' = [coll EXCEPT
                                 !.pc = "returned",
                                 !.sunk = Append(@, Finalize(coll.scrubber, event)),
                                 !.sinkRes = r,
                                 !.res = r]
    /\ UNCHANGED <<asyncVars, multiVars, ringVars, pureVars, runVars, storeVars>>

NextCollector == Record

SpecCollector == InitCollector /\ [][NextCollector]_vars

\* ------------------------------------------------------- Fingerprint calls

\* The most lines a stack trace passed to Fingerprint has.
MaxLines == 4

\* The lines of those stack traces: function lines of one function with two
\* different addresses ("a", "b"), of another function ("f"), and a
\* source-location line with two different line numbers ("p", "l").
FpLines == {"a", "b", "f", "p", "l"}

\* The values of ErrorType and Operation, and of AgentName and ToolName.
FpNames == {<<"x">>, <<"x", "|", "x">>}

FpOptionalNames == {<<>>, <<"x">>}

\* What else an event carries: an occurrence of an error, and a later one
\* that differs in Message, EventID, Timestamp, Severity and Metadata.
FirstOccurrence ==
    [Message |-> <<"c">>, EventID |-> "evt-1", Timestamp |-> CallerTime,
     Severity |-> "error", Metadata |-> [isNil |-> TRUE, kv |-> <<>>]]

LaterOccurrence ==
    [Message |-> <<"s", "c">>, EventID |-> "evt-2", Timestamp |-> WallClock,
     Severity |-> "crash",
     Metadata |-> [isNil |-> FALSE, kv |-> [k \in {"request_id"} |-> <<"c">>]]]

\* The event of an occurrence with the given grouping fields and stack trace.
FpEvent(occ, et, op, ag, tl, trace) ==
    [EventID |-> occ.EventID, Timestamp |-> occ.Timestamp,
     Severity |-> occ.Severity, Message |-> occ.Message,
     Metadata |-> occ.Metadata, ErrorType |-> et, Operation |-> op,
     AgentName |-> ag, ToolName |-> tl, StackTrace |-> trace]

\* The events passed to Fingerprint.
FpEvents ==
    {FpEvent(FirstOccurrence, et, op, ag, tl, trace) :
        et \in FpNames, op \in FpNames,
        ag \in FpOptionalNames, tl \in FpOptionalNames,
        trace \in StringsOver(FpLines, MaxLines)}

\* A caller holds any event; nothing but Fingerprint is called.
InitFingerprint ==
    /\ InitSink(<<QueueSize>>, {FALSE})
    /\ MultiAtRest
    /\ CollectorAtRest
    /\ BufferAtRest
    /\ RunAtRest
    /\ scrub = NoScrubCall
    /\ \E event \in FpEvents : fp = [NoFingerprintCall EXCEPT !.event = event]

\* Fingerprint(event)
FingerprintCall ==
    /\ fp.pc = "idle"
    /\ fp' = [fp EXCEPT !.pc = "done", !.out = Fingerprint(fp.event)]
    /\ UNCHANGED <<asyncVars, multiVars, collVars, ringVars, scrub, runVars, storeVars>>

NextFingerprint == FingerprintCall

SpecFingerprint == InitFingerprint /\ [][NextFingerprint]_vars

\* -------------------------------------------------- the Scrubber's methods

\* The longest message, stack trace or metadata value passed to a scrubber.
MaxInputLen == 4

\* NewScrubber(cfg) for any ScrubberConfig: both flags, and the size limits
\* one value of Sizes.
ScrubberConfigs ==
    {[on |-> TRUE, ScrubMessages |-> b, FailClosed |-> f, MaxMessageSize |-> n,
      MaxStackTraceSize |-> n, MaxMetadataKeySize |-> n] :
        b \in BOOLEAN, f \in BOOLEAN, n \in Sizes}

\* The metadata maps passed to ScrubMetadata: nil, and the maps over MetaKeys
\* and an upper-case key with an empty, a secret or a long value.
ScrubMetadatas ==
    {[isNil |-> TRUE, kv |-> <<>>]} \cup
    {[isNil |-> FALSE, kv |-> kv] :
        kv \in UNION {[ks -> {<<>>, <<"s">>, [k \in 1 .. MaxInputLen |-> "c"]}] :
                         ks \in SUBSET (MetaKeys \cup {"API_KEY"})}}

\* A scrubber is made with any configuration; everything else is at rest.
InitScrub ==
    /\ InitSink(<<QueueSize>>, {FALSE})
    /\ MultiAtRest
    /\ CollectorAtRest
    /\ BufferAtRest
    /\ RunAtRest
    /\ fp = NoFingerprintCall
    /\ \E sc \in ScrubberConfigs : scrub = [NoScrubCall EXCEPT !.cfg = sc]

\* s.ScrubMessage(msg)
ScrubMessageCall ==
    /\ scrub.op = "none"
    /\ \E msg \in StringsOver(MessageUnits, MaxInputLen) :
          scrub' = [scrub EXCEPT !.op = "message", !.arg = msg,
                                 !.out = ScrubMessage(scrub.cfg, msg)]
    /\ UNCHANGED <<asyncVars, multiVars, collVars, ringVars, fp, runVars, storeVars>>

\* s.ScrubStackTrace(trace)
ScrubStackTraceCall ==
    /\ scrub.op = "none"
    /\ \E trace \in StringsOver(TraceUnits, MaxInputLen) :
          scrub' = [scrub EXCEPT !.op = "trace", !.arg = trace,
                                 !.out = ScrubStackTrace(scrub.cfg, trace)]
    /\ UNCHANGED <<asyncVars, multiVars, collVars, ringVars, fp, runVars, storeVars>>

\* s.ScrubMetadata(meta)
ScrubMetadataCall ==
    /\ scrub.op = "none"
    /\ \E meta \in ScrubMetadatas :
          scrub' = [scrub EXCEPT !.op = "metadata", !.arg = meta,
                                 !.out = ScrubMetadata(scrub.cfg, meta)]
    /\ UNCHANGED <<asyncVars, multiVars, collVars, ringVars, fp, runVars, storeVars>>

\* s.ScrubJSON(jsonStr)
ScrubJSONCall ==
    /\ scrub.op = "none"
    /\ \E text \in JsonTexts :
          scrub' = [scrub EXCEPT !.op = "json", !.arg = text,
                                 !.out = ScrubJSON(scrub.cfg, text)]
    /\ UNCHANGED <<asyncVars, multiVars, collVars, ringVars, fp, runVars, storeVars>>

NextScrub ==
    \/ ScrubMessageCall
    \/ ScrubStackTraceCall
    \/ ScrubMetadataCall
    \/ ScrubJSONCall

SpecScrub == InitScrub /\ [][NextScrub]_vars

\* ---------------------------------------------------- operationHistoryBuffer

\* The durations a completed operation patches into its record.
Durations == {1, 2}

\* The k-th OperationRecord a caller adds: tagged k, Duration not yet known.
NewRecord(k) == [tag |-> k, dur |-> 0]

\* GetAll copying the records without the rotation.
GetAllUnrotated(b) == b.records

\* operationHistoryBuffer.GetAll: empty for no records, b.records while the
\* buffer is not full, otherwise
\*   copy(result, b.records[b.writeIdx:])
\*   copy(result[len(b.records)-b.writeIdx:], b.records[:b.writeIdx])
\* Go's indices start at 0, a sequence's at 1.
GetAll(b) ==
    IF Len(b.records) = 0 THEN <<>>
    ELSE IF Len(b.records) < b.maxSize THEN b.records
    ELSE SubSeq(b.records, b.writeIdx + 1, Len(b.records))
             \o SubSeq(b.records, 1, b.writeIdx)

\* A buffer of any capacity from 1 to MaxCapacity; the sinks and the
\* collector are at rest.
InitBuffer ==
    /\ InitSink(<<QueueSize>>, {FALSE})
    /\ MultiAtRest
    /\ CollectorAtRest
    /\ \E n \in 1 .. MaxCapacity : ring = NewBuffer(n)
    /\ hist = NoHistory
    /\ PureAtRest
    /\ RunAtRest

\* The capacities append may give the new array when len(b.records) ==
\* cap(b.records): the language only says "sufficiently large".
GrownCaps(len) == {len + 1, 2 * len + 1}

\* Whether the slice GetAll returns shares the array of b.records:
\*   if len(b.records) < b.maxSize { return b.records }
Aliased(b) == 0 < Len(b.records) /\ Len(b.records) < b.maxSize

\* What is left of hist after the buffer went from b to nb: append moves
\* b.records to a new array when it is full to its capacity, which ends the
\* sharing; a slice that shares the array reads the array's elements.
Held(h, b, nb, cap) ==
    LET moved == Len(nb.records) > Len(b.records) /\ Len(b.records) = h.cap
        aliased == h.aliased /\ ~moved
    IN  [h EXCEPT !.cap = cap,
                  !.aliased = aliased,
                  !.held = IF aliased THEN SubSeq(nb.records, 1, Len(h.held))
                           ELSE h.held]

\* Add advancing the cursor without wrapping it.
AddNoWrap ==
    /\ Len(hist.added) < MaxAdds
    /\ LET record == NewRecord(Len(hist.added) + 1)
       IN  /\ ring' = IF Len(ring.records) < ring.maxSize
                      THEN [ring EXCEPT !.records = Append(@, record)]
                      ELSE [ring EXCEPT !.records[ring.writeIdx + 1] = record,
                                        !.writeIdx = ring.writeIdx + 1]
           /\ \E cap \in (IF /\ Len(ring.records) < ring.maxSize
                            /\ Len(ring.records) = hist.cap
                         THEN GrownCaps(hist.cap) ELSE {hist.cap}) :
                 hist' = Held([hist EXCEPT !.added = Append(@, record),
                                           !.op = "add"],
                              ring, ring', cap)
    /\ UNCHANGED <<asyncVars, multiVars, collVars, pureVars, runVars, storeVars>>

\* operationHistoryBuffer.Add(record):
\*   if len(b.records) < b.maxSize { b.records = append(b.records, record) }
\*   else { b.records[b.writeIdx] = record
\*          b.writeIdx = (b.writeIdx + 1) % b.maxSize }
Add ==
    /\ Len(hist.added) < MaxAdds
    /\ LET record == NewRecord(Len(hist.added) + 1)
       IN  /\ ring' = IF Len(ring.records) < ring.maxSize
                      THEN [ring EXCEPT !.records = Append(@, record)]
                      ELSE [ring EXCEPT !.records[ring.writeIdx + 1] = record,
                                        !.writeIdx = (ring.writeIdx + 1) % ring.maxSize]
           /\ \E cap \in (IF /\ Len(ring.records) < ring.maxSize
                            /\ Len(ring.records) = hist.cap
                         THEN GrownCaps(hist.cap) ELSE {hist.cap}) :
                 hist' = Held([hist EXCEPT !.added = Append(@, record),
                                           !.op = "add"],
                              ring, ring', cap)
    /\ UNCHANGED <<asyncVars, multiVars, collVars, pureVars, runVars, storeVars>>

\* A caller calls GetAll and keeps the result, which is b.records itself
\* while the buffer is not full and a new slice otherwise.
GetAllCall ==
    /\ hist' = [hist EXCEPT !.got = GetAll(ring), !.op = "getall",
                            !.held = GetAll(ring), !.aliased = Aliased(ring)]
    /\ UNCHANGED ring
    /\ UNCHANGED <<asyncVars, multiVars, collVars, pureVars, runVars, storeVars>>

\* UpdateLast taking the end of b.records as the last record always.
UpdateLastAtEnd ==
    /\ \E d \in Durations :
          IF Len(ring.records) = 0
          THEN /\ hist' = [hist EXCEPT !.op = "update", !.updated = FALSE,
                                       !.fnCalls = 0, !.before = GetAll(ring)]
               /\ UNCHANGED ring
          ELSE LET lastIdx == Len(ring.records) - 1
               IN  /\ ring' = [ring EXCEPT !.records[lastIdx + 1].dur = d]
                   /\ hist' = Held([hist EXCEPT !.op = "update", !.updated = TRUE,
                                                !.fnCalls = 1,
                                                !.before = GetAll(ring),
                                                !.patch = d, !.updates = 1],
                                    ring, ring', hist.cap)
    /\ UNCHANGED <<asyncVars, multiVars, collVars, pureVars, runVars, storeVars>>

\* operationHistoryBuffer.UpdateLast(fn), for an fn that sets the record's
\* Duration:
\*   if len(b.records) == 0 { return false }
\*   lastIdx = len(b.records) - 1                      (buffer not full)
\*   lastIdx = (b.writeIdx - 1 + b.maxSize) % b.maxSize           (full)
\*   fn(&b.records[lastIdx]); return true
\* before is what GetAll gave before the call, fnCalls the calls of fn and
\* patch the Duration fn sets.
UpdateLast ==
    /\ \E d \in Durations :
          IF Len(ring.records) = 0
          THEN /\ hist' = [hist EXCEPT !.op = "update", !.updated = FALSE,
                                       !.fnCalls = 0, !.before = GetAll(ring)]
               /\ UNCHANGED ring
          ELSE LET lastIdx == IF Len(ring.records) < ring.maxSize
                              THEN Len(ring.records) - 1
                              ELSE (ring.writeIdx - 1 + ring.maxSize) % ring.maxSize
               IN  /\ ring' = [ring EXCEPT !.records[lastIdx + 1].dur = d]
                   /\ hist' = Held([hist EXCEPT !.op = "update", !.updated = TRUE,
                                                !.fnCalls = 1,
                                                !.before = GetAll(ring),
                                                !.patch = d, !.updates = 1],
                                    ring, ring', hist.cap)
    /\ UNCHANGED <<asyncVars, multiVars, collVars, pureVars, runVars, storeVars>>

NextBuffer ==
    \/ Add
    \/ GetAllCall
    \/ UpdateLast

SpecBuffer == InitBuffer /\ [][NextBuffer]_vars

\* ------------------------------------------------ WrappedRunner and Recover

\* maxSize: 10 of the buffer Enrichment.RecordOperation creates.
HistorySize == 10

\* The most operations the start hooks record in a run.
MaxOps == 11

\* The most tool calls of a run.
MaxToolCalls == 1

\* The most calls of the end hooks in a run.
MaxEndHooks == 1

\* The largest context ID supplied.
MaxContextID == 2

\* NewScrubber(DefaultScrubberConfig()), what WithDefaultScrubbing installs.
DefaultScrubber ==
    [on |-> TRUE, ScrubMessages |-> TRUE, FailClosed |-> TRUE,
     MaxMessageSize |-> 4096, MaxStackTraceSize |-> 32768,
     MaxMetadataKeySize |-> 1024]

\* The contexts a caller passes: plain, or made by WithContextID(ctx, id).
Contexts ==
    {NoContextID} \cup {[set |-> TRUE, id |-> n] : n \in 0 .. MaxContextID}

\* The sessions a caller passes: no ContextIDProvider, a provider whose
\* ContextID(ctx) returns an error, or one that returns (id, nil).
Sessions ==
    {NoSession, [provider |-> TRUE, failing |-> TRUE, id |-> 0]}
        \cup {[provider |-> TRUE, failing |-> FALSE, id |-> n] :
                 n \in 0 .. MaxContextID}

\* call.Arguments of a tool call, JSON texts: {"query":"c"} and
\* {"api_key":"s"}, "s" being the key itself (sk-...).
ToolArguments ==
    {Marshal(JObject([k \in {"query"} |-> JString(<<"c">>)])),
     Marshal(JObject([k \in {"api_key"} |-> JString(<<"s">>)]))}

\* The output string of a tool: plain text, or text holding a secret.
ToolOutputs == {<<"c">>, <<"c", "s">>}

\* The metadata key of attachOperationHistory.
HistoryKey == "aisen.operation_history_json"

\* event.ContextID, a *uint64: nil, or a pointer to id.
NilContextID == [isNil |-> TRUE, v |-> 0]

ContextIDPtr(id) == [isNil |-> FALSE, v |-> id]

\* ContextIDFromContext(ctx): (set.id, true) when WithContextID was called,
\* (0, false) otherwise.
ContextIDFromContext(ctx) ==
    IF ctx.set THEN [id |-> ctx.id, ok |-> TRUE] ELSE [id |-> 0, ok |-> FALSE]

\* WrappedRunner.extractContextID: the provider's id when it returns no
\* error, else the context's id, else 0.
ExtractContextID(ctx, session) ==
    IF session.provider /\ ~session.failing THEN session.id
    ELSE IF ContextIDFromContext(ctx).ok THEN ContextIDFromContext(ctx).id
    ELSE 0

\* Enrichment.RecordOperation: e.operationHistory.Add(record), on the buffer
\* of maxSize 10 that the first call creates.  The nil buffer before the
\* first call is the empty buffer here: GetOperationHistory returns no
\* records for both, and the end hooks change neither.
RecordOperation(b, record) ==
    IF Len(b.records) < b.maxSize
    THEN [b EXCEPT !.records = Append(@, record)]
    ELSE [b EXCEPT !.records[b.writeIdx + 1] = record,
                   !.writeIdx = (b.writeIdx + 1) % b.maxSize]

\* GetOperationHistory handing out the records as they lie in the buffer.
GetOperationHistoryUnrotated(b) == GetAllUnrotated(b)

\* Enrichment.GetOperationHistory: e.operationHistory.GetAll()
GetOperationHistory(b) == GetAll(b)

\* The index UpdateLast finds for the record added last (Go's, from 0):
\*   lastIdx = len(b.records) - 1                      (buffer not full)
\*   lastIdx = (b.writeIdx - 1 + b.maxSize) % b.maxSize           (full)
LastIdx(b) ==
    IF Len(b.records) < b.maxSize THEN Len(b.records) - 1
    ELSE (b.writeIdx - 1 + b.maxSize) % b.maxSize

\* json.Marshal of a Go string: quoted, the quotes inside it escaped.
Quote(str) ==
    <<"\"">> \o [i \in 1 .. Len(str) |-> IF str[i] = "\"" THEN "\\\"" ELSE str[i]]
            \o <<"\"">>

\* json.Marshal of one OperationRecord, by its struct tags: duration_ms,
\* input and output are omitempty.
MarshalRecord(rec) ==
    <<"{", "kind", ":", rec.Kind, ",", "timestamp", ":", ToString(rec.Timestamp)>>
        \o (IF rec.Duration # 0
            THEN <<",", "duration_ms", ":", ToString(rec.Duration)>> ELSE <<>>)
        \o (IF rec.Kind = "llm" THEN <<",", "llm", ":", "{", "}">>
            ELSE <<",", "tool", ":", "{">>
                 \o (IF rec.Input # <<>>
                     THEN <<"input", ":">> \o Quote(rec.Input) ELSE <<>>)
                 \o (IF rec.Output # <<>>
                     THEN <<",", "output", ":">> \o Quote(rec.Output) ELSE <<>>)
                 \o <<"}">>)
        \o <<"}">>

\* json.Marshal(history) of a []OperationRecord.
RECURSIVE MarshalRecords(_)
MarshalRecords(history) ==
    IF history = <<>> THEN <<>>
    ELSE MarshalRecord(Head(history))
         \o (IF Len(history) > 1 THEN <<",">> ELSE <<>>)
         \o MarshalRecords(Tail(history))

MarshalHistory(history) == <<"[">> \o MarshalRecords(history) \o <<"]">>

\* attachOperationHistory: nothing for an empty history, otherwise
\*   event.Metadata["aisen.operation_history_json"] = string(historyJSON)
\* in a map that is made when the event has none.
AttachOperationHistory(event, b) ==
    LET history == GetOperationHistory(b)
    IN  IF Len(history) = 0 THEN event
        ELSE [event EXCEPT !.Metadata =
                 [isNil |-> FALSE,
                  kv |-> [k \in {HistoryKey} |-> MarshalHistory(history)]]]

\* The ErrorEvent literal of the builders and of Recover, before the
\* context ID and the history are set.
NewErrorEvent(severity, errorType, trace, r) ==
    [EventID |-> "", Timestamp |-> 0, Fingerprint |-> <<>>,
     Severity |-> severity, ErrorType |-> errorType,
     Operation |-> r.Operation, AgentName |-> <<>>, ToolName |-> r.ToolName,
     Message |-> <<"c">>, StackTrace |-> trace, ContextID |-> NilContextID,
     Metadata |-> [isNil |-> TRUE, kv |-> <<>>]]

\* string(debug.Stack()): a header, a function line and its location.
DebugStack == <<"h", "f", "p">>

\* if contextID != 0 { event.ContextID = &contextID }
SetContextIDIfNonZero(event, contextID) ==
    IF contextID # 0 THEN [event EXCEPT !.ContextID = ContextIDPtr(contextID)]
    ELSE event

\* buildErrorEvent(err, contextID, enrichment)
BuildErrorEvent(r, b) ==
    AttachOperationHistory(
        SetContextIDIfNonZero(NewErrorEvent("error", <<"e">>, <<>>, r), r.contextID),
        b)

\* buildPanicEvent(recovered, contextID, enrichment)
BuildPanicEvent(r, b) ==
    AttachOperationHistory(
        SetContextIDIfNonZero(NewErrorEvent("crash", <<"panic">>, DebugStack, r),
                              r.contextID),
        b)

\* The event Recover builds:
\*   if contextID, ok := ContextIDFromContext(ctx); ok { event.ContextID = &contextID }
\* No enrichment belongs to it.
BuildRecoverEvent(r) ==
    LET event == NewErrorEvent("crash", <<"panic">>, DebugStack,
                               [Operation |-> <<>>, ToolName |-> <<>>])
        found == ContextIDFromContext(r.ctx)
    IN  IF found.ok THEN [event EXCEPT !.ContextID = ContextIDPtr(found.id)]
        ELSE event

\* The collectors left by c.Record(ctx, event): a panic in a scrubber ends
\* the call before the sink, otherwise the sink's Write is called once with
\* the finalized event and returns nil or an error.
RecordOutcomes(c, event) ==
    IF ScrubPanics(ScrubEvent(c.scrubber, DefaultIdentity(event)))
    THEN {[c EXCEPT !.pc = "panicked", !.res = "panic"]}
    ELSE {[c EXCEPT !.pc = "returned",
                    !.sunk = Append(@, Finalize(c.scrubber, event)),
                    !.sinkRes = r, !.res = r] :
             r \in (IF c.sinkSet THEN {"nil", "sinkErr"} ELSE {"nil"})}

\* A runner wraps a collector made with WithSink and WithDefaultScrubbing;
\* a caller holds any context and any session.  No hook has run.
InitContext ==
    /\ InitSink(<<QueueSize>>, {FALSE})
    /\ MultiAtRest
    /\ PureAtRest
    /\ coll = NewCollector(TRUE, DefaultScrubber)
    /\ input = ZeroEvent
    /\ ring = NewBuffer(HistorySize)
    /\ hist = NoHistory
    /\ store = NoStore
    /\ runs = NoRuns
    /\ \E ctx \in Contexts, session \in Sessions :
          run = [NoRun EXCEPT !.ctx = ctx, !.session = session]

\* The same for a caller that supplies no context ID.
InitRun ==
    /\ InitSink(<<QueueSize>>, {FALSE})
    /\ MultiAtRest
    /\ PureAtRest
    /\ coll = NewCollector(TRUE, DefaultScrubber)
    /\ input = ZeroEvent
    /\ ring = NewBuffer(HistorySize)
    /\ hist = NoHistory
    /\ store = NoStore
    /\ runs = NoRuns
    /\ run = NoRun

\* WrappedRunner.Run up to the call of w.inner.Run:
\*   contextID := w.extractContextID(ctx, session)
RunCall ==
    /\ run.pc = "idle"
    /\ run' = [run EXCEPT !.pc = "running", !.method = "Run",
                          !.contextID = ExtractContextID(run.ctx, run.session)]
    /\ UNCHANGED <<asyncVars, multiVars, collVars, ringVars, pureVars, storeVars>>

\* WrappedRunner.RunOnce up to the call of w.inner.RunOnce:
\*   var contextID uint64
RunOnceCall ==
    /\ run.pc = "idle"
    /\ run' = [run EXCEPT !.pc = "running", !.method = "RunOnce",
                          !.contextID = 0]
    /\ UNCHANGED <<asyncVars, multiVars, collVars, ringVars, pureVars, storeVars>>

\* The update OnToolStart makes on the run's enrichment: a "tool" record
\* holding string(call.Arguments) is added to the history.
ToolStartUpdate(b, timestamp, arguments) ==
    RecordOperation(b, [Kind |-> "tool", Timestamp |-> timestamp,
                        Duration |-> 0, Input |-> arguments, Output |-> <<>>])

\* The update OnToolEnd makes: e.operationHistory.UpdateLast(fn) does nothing
\* on an empty buffer; otherwise the record added last gets the output and a
\* duration when it is a "tool" record.  The hook is not told which call
\* ended.
ToolEndUpdate(b, output) ==
    IF Len(b.records) = 0 THEN b
    ELSE [b EXCEPT !.records[LastIdx(b) + 1] =
             IF @.Kind = "tool"
             THEN [@ EXCEPT !.Output = output, !.Duration = 1]
             ELSE @]

\* The update OnLLMStart makes: an "llm" record, which holds metadata only,
\* is added.
LLMStartUpdate(b, timestamp) ==
    RecordOperation(b, [Kind |-> "llm", Timestamp |-> timestamp,
                        Duration |-> 0, Input |-> <<>>, Output |-> <<>>])

\* The update OnLLMEnd makes: the record added last gets a duration when it
\* is an "llm" record.
LLMEndUpdate(b) ==
    IF Len(b.records) = 0 THEN b
    ELSE [b EXCEPT !.records[LastIdx(b) + 1] =
             IF @.Kind = "llm" THEN [@ EXCEPT !.Duration = 1] ELSE @]

\* HookAdapter.OnToolStart: the enrichment's Operation and ToolName are set
\* and the record is added.
OnToolStart ==
    /\ run.pc = "running"
    /\ run.ops < MaxOps
    /\ run.tools < MaxToolCalls
    /\ \E arguments \in ToolArguments :
          ring' = ToolStartUpdate(ring, run.ops + 1, arguments)
    /\ run' = [run EXCEPT !.ops = @ + 1, !.tools = @ + 1,
                          !.Operation = <<"tool">>, !.ToolName = <<"t">>]
    /\ UNCHANGED <<asyncVars, multiVars, collVars, hist, pureVars, storeVars>>

\* HookAdapter.OnToolEnd with any output.
OnToolEnd ==
    /\ run.pc = "running"
    /\ run.ends < MaxEndHooks
    /\ \E output \in ToolOutputs : ring' = ToolEndUpdate(ring, output)
    /\ run' = [run EXCEPT !.ends = @ + 1]
    /\ UNCHANGED <<asyncVars, multiVars, collVars, hist, pureVars, storeVars>>

\* HookAdapter.OnLLMStart: the enrichment's Operation is set and the record
\* is added.
OnLLMStart ==
    /\ run.pc = "running"
    /\ run.ops < MaxOps
    /\ ring' = LLMStartUpdate(ring, run.ops + 1)
    /\ run' = [run EXCEPT !.ops = @ + 1, !.Operation = <<"llm">>]
    /\ UNCHANGED <<asyncVars, multiVars, collVars, hist, pureVars, storeVars>>

\* HookAdapter.OnLLMEnd.
OnLLMEnd ==
    /\ run.pc = "running"
    /\ run.ends < MaxEndHooks
    /\ ring' = LLMEndUpdate(ring)
    /\ run' = [run EXCEPT !.ends = @ + 1]
    /\ UNCHANGED <<asyncVars, multiVars, collVars, hist, pureVars, storeVars>>

\* The inner runner returns an error: captureError builds the event and
\* safeRecord records it; the deferred Delete drops the run's enrichment.
RunFails ==
    /\ run.pc = "running"
    /\ LET event == BuildErrorEvent(run, ring)
       IN  /\ run' = [run EXCEPT !.pc = "returned", !.failure = "error",
                                 !.built = event]
           /\ input' = event
           /\ coll' \in RecordOutcomes(coll, event)
    /\ ring' = NewBuffer(HistorySize)
    /\ UNCHANGED <<asyncVars, multiVars, hist, pureVars, storeVars>>

\* The inner runner panics: the deferred capturePanic builds the event,
\* records it and panics again; the deferred Delete drops the enrichment.
RunPanics ==
    /\ run.pc = "running"
    /\ LET event == BuildPanicEvent(run, ring)
       IN  /\ run' = [run EXCEPT !.pc = "panicked", !.failure = "panic",
                                 !.built = event]
           /\ input' = event
           /\ coll' \in RecordOutcomes(coll, event)
    /\ ring' = NewBuffer(HistorySize)
    /\ UNCHANGED <<asyncVars, multiVars, hist, pureVars, storeVars>>

\* The inner runner returns without an error: no event, the enrichment is
\* dropped.
RunReturns ==
    /\ run.pc = "running"
    /\ run' = [run EXCEPT !.pc = "returned"]
    /\ ring' = NewBuffer(HistorySize)
    /\ UNCHANGED <<asyncVars, multiVars, collVars, hist, pureVars, storeVars>>

\* A deferred aisen.Recover(ctx, collector) of code that panicked outside a
\* runner: the event is built and recorded, the result of Record ignored.
RecoverCall ==
    /\ run.pc = "idle"
    /\ LET event == BuildRecoverEvent(run)
       IN  /\ run' = [run EXCEPT !.pc = "recovered", !.method = "Recover",
                                 !.failure = "panic", !.built = event]
           /\ input' = event
           /\ coll' \in RecordOutcomes(coll, event)
    /\ UNCHANGED <<asyncVars, multiVars, ringVars, pureVars, storeVars>>

NextContext ==
    \/ RunCall
    \/ RunOnceCall
    \/ RunFails
    \/ RunPanics
    \/ RunReturns
    \/ RecoverCall

SpecContext == InitContext /\ [][NextContext]_vars

NextRun ==
    \/ RunCall
    \/ OnToolStart
    \/ OnToolEnd
    \/ OnLLMStart
    \/ OnLLMEnd
    \/ RunFails
    \/ RunPanics
    \/ RunReturns

SpecRun == InitRun /\ [][NextRun]_vars

\* ------------------------------------------- the operations of one run

\* The most operations an agent starts in the runs that follow each
\* operation from its start hook to its end hook.
MaxHookOps == 4

\* The agent starts a tool call: OnToolStart is called.  The call is open
\* until it ends.
ToolCallStarts ==
    /\ run.pc = "running"
    /\ run.ops < MaxHookOps
    /\ \E arguments \in ToolArguments :
          ring' = ToolStartUpdate(ring, run.ops + 1, arguments)
    /\ run' = [run EXCEPT !.ops = @ + 1, !.tools = @ + 1,
                          !.openTools = @ \cup {run.ops + 1}, !.ended = 0,
                          !.Operation = <<"tool">>, !.ToolName = <<"t">>]
    /\ UNCHANGED <<asyncVars, multiVars, collVars, hist, pureVars, storeVars>>

\* One of the open tool calls ends: OnToolEnd is called with its output.
ToolCallEnds ==
    /\ run.pc = "running"
    /\ \E k \in run.openTools :
          run' = [run EXCEPT !.ends = @ + 1, !.openTools = @ \ {k},
                            !.ended = k]
    /\ \E output \in ToolOutputs : ring' = ToolEndUpdate(ring, output)
    /\ UNCHANGED <<asyncVars, multiVars, collVars, hist, pureVars, storeVars>>

\* The agent starts an LLM call: OnLLMStart is called.
LLMCallStarts ==
    /\ run.pc = "running"
    /\ run.ops < MaxHookOps
    /\ ring' = LLMStartUpdate(ring, run.ops + 1)
    /\ run' = [run EXCEPT !.ops = @ + 1, !.openLLMs = @ \cup {run.ops + 1},
                          !.ended = 0, !.Operation = <<"llm">>]
    /\ UNCHANGED <<asyncVars, multiVars, collVars, hist, pureVars, storeVars>>

\* One of the open LLM calls ends: OnLLMEnd is called.
LLMCallEnds ==
    /\ run.pc = "running"
    /\ \E k \in run.openLLMs :
          run' = [run EXCEPT !.ends = @ + 1, !.openLLMs = @ \ {k},
                            !.ended = k]
    /\ ring' = LLMEndUpdate(ring)
    /\ UNCHANGED <<asyncVars, multiVars, collVars, hist, pureVars, storeVars>>

NextHooks ==
    \/ RunCall
    \/ ToolCallStarts
    \/ ToolCallEnds
    \/ LLMCallStarts
    \/ LLMCallEnds

SpecHooks == InitRun /\ [][NextHooks]_vars

\* ------------------------------------------------- inMemoryEnrichmentStore

\* The run IDs callers use as keys.
RunIDs == {"run-1", "run-2"}

\* The most calls made on a store.
MaxStoreOps == 4

\* The deletion of a map entry left out: the map stays as it is.
WithoutNothing(data, runID) == data

\* The map without the entry of runID: delete(s.data, runID)
Without(data, runID) == [k \in DOMAIN data \ {runID} |-> data[k]]

\* e, ok := s.data[runID]; if !ok { e = &Enrichment{}; s.data[runID] = e }
EntryOf(data, runID) ==
    IF runID \in DOMAIN data THEN data[runID]
    ELSE [AgentName |-> "", Operation |-> <<>>, ToolName |-> <<>>,
          operationHistory |-> 0]

\* The map with the entry of runID set to e.
WithEntry(data, runID, e) ==
    [k \in DOMAIN data \cup {runID} |-> IF k = runID THEN e ELSE data[k]]

\* The record a caller adds as the n-th call on the store.
StoreRecord(n) ==
    [Kind |-> "llm", Timestamp |-> n, Duration |-> 0, Input |-> <<>>,
     Output |-> <<>>]

\* e.RecordOperation(record) on an Enrichment value e with the buffers bufs:
\* a nil e.operationHistory is set to a new buffer, then Add is called on
\* the buffer it points to.
EnrichmentRecordOperation(e, bufs, record) ==
    IF e.operationHistory = 0
    THEN [e |-> [e EXCEPT !.operationHistory = Len(bufs) + 1],
          bufs |-> Append(bufs, RecordOperation(NewBuffer(HistorySize), record))]
    ELSE [e |-> e,
          bufs |-> [bufs EXCEPT ![e.operationHistory] = RecordOperation(@, record)]]

\* e.GetOperationHistory() on an Enrichment value.
EnrichmentHistory(e, bufs) ==
    IF e.operationHistory = 0 THEN <<>>
    ELSE GetOperationHistory(bufs[e.operationHistory])

\* A store is made; everything else is at rest.
InitStore ==
    /\ InitSink(<<QueueSize>>, {FALSE})
    /\ MultiAtRest
    /\ CollectorAtRest
    /\ BufferAtRest
    /\ PureAtRest
    /\ run = NoRun
    /\ runs = NoRuns
    /\ store = NoStore

\* store.Update(runID, func(e *Enrichment) { e.AgentName = "original" })
UpdateAgentName ==
    /\ store.steps < MaxStoreOps
    /\ \E runID \in RunIDs :
          store' = [store EXCEPT
                       !.data = WithEntry(@, runID,
                                    [EntryOf(@, runID) EXCEPT
                                        !.AgentName = "original"]),
                       !.op = "update", !.steps = @ + 1]
    /\ UNCHANGED <<asyncVars, multiVars, collVars, ringVars, pureVars, runVars,
                   runs>>

\* store.Update(runID, func(e *Enrichment) { e.RecordOperation(record) })
UpdateRecordOperation ==
    /\ store.steps < MaxStoreOps
    /\ \E runID \in RunIDs :
          LET done == EnrichmentRecordOperation(EntryOf(store.data, runID),
                          store.bufs, StoreRecord(store.steps + 1))
          IN  store' = [store EXCEPT
                           !.data = WithEntry(@, runID, done.e),
                           !.bufs = done.bufs,
                           !.op = "update", !.steps = @ + 1]
    /\ UNCHANGED <<asyncVars, multiVars, collVars, ringVars, pureVars, runVars,
                   runs>>

\* got, ok := store.Get(runID): Enrichment{}, false when there is no entry,
\* otherwise *e, a copy of the struct (the pointer e.operationHistory is one
\* of its fields), and true.
GetCall ==
    /\ store.steps < MaxStoreOps
    /\ \E runID \in RunIDs :
          store' = [store EXCEPT
                       !.got = IF runID \in DOMAIN store.data
                               THEN [ok |-> TRUE,
                                     AgentName |-> store.data[runID].AgentName,
                                     operationHistory |->
                                         store.data[runID].operationHistory]
                               ELSE [ok |-> FALSE, AgentName |-> "",
                                     operationHistory |-> 0],
                       !.op = "get", !.steps = @ + 1]
    /\ UNCHANGED <<asyncVars, multiVars, collVars, ringVars, pureVars, runVars,
                   runs>>

\* The caller changes a field of the Enrichment it got:
\*   got.AgentName = "modified"
ModifyCopy ==
    /\ store.steps < MaxStoreOps
    /\ store.got.ok
    /\ store' = [store EXCEPT !.got.AgentName = "modified",
                              !.op = "modify", !.steps = @ + 1]
    /\ UNCHANGED <<asyncVars, multiVars, collVars, ringVars, pureVars, runVars,
                   runs>>

\* The caller calls got.RecordOperation(record) on the Enrichment it got.
CopyRecordOperation ==
    /\ store.steps < MaxStoreOps
    /\ store.got.ok
    /\ LET e == [AgentName |-> store.got.AgentName,
                 operationHistory |-> store.got.operationHistory]
           done == EnrichmentRecordOperation(e, store.bufs,
                                             StoreRecord(store.steps + 1))
       IN  store' = [store EXCEPT
                        !.got.operationHistory = done.e.operationHistory,
                        !.bufs = done.bufs,
                        !.op = "modify", !.steps = @ + 1]
    /\ UNCHANGED <<asyncVars, multiVars, collVars, ringVars, pureVars, runVars,
                   runs>>

\* store.Delete(runID)
DeleteCall ==
    /\ store.steps < MaxStoreOps
    /\ \E runID \in RunIDs :
          store' = [store EXCEPT !.data = Without(@, runID),
                                 !.op = "delete", !.steps = @ + 1]
    /\ UNCHANGED <<asyncVars, multiVars, collVars, ringVars, pureVars, runVars,
                   runs>>

NextStore ==
    \/ UpdateAgentName
    \/ UpdateRecordOperation
    \/ GetCall
    \/ ModifyCopy
    \/ CopyRecordOperation
    \/ DeleteCall

SpecStore == InitStore /\ [][NextStore]_vars

\* ------------------------------------------- the runs of a WrappedRunner

\* The most hook calls the agent of one run makes.
MaxRunHooks == 2

\* What a runner call gave: a result and an error, or a panic.
NoOutcome == [result |-> "none", err |-> "none", panic |-> "none"]

\* A run that has not started.  inner is what the inner runner gave and
\* returned what the wrapper gave its caller; seen is the run's enrichment
\* when the inner runner ended, built the events the wrapper built and
\* results what Record returned for them.
IdleRun ==
    [pc |-> "idle", method |-> "none", contextID |-> 0, hooks |-> 0,
     inner |-> NoOutcome, panicking |-> "none", returned |-> NoOutcome,
     seen |-> [e |-> EntryOf(<<>>, ""), history |-> <<>>],
     built |-> <<>>, results |-> <<>>]

\* The outcomes of the inner runner.
InnerResults ==
    {[result |-> "result", err |-> "nil", panic |-> "none"],
     [result |-> "result", err |-> "err", panic |-> "none"],
     [result |-> "nil", err |-> "err", panic |-> "none"],
     [result |-> "none", err |-> "none", panic |-> "boom"]}

\* enrichment, _ := w.enrichments.Get(runID) followed by the builder: the
\* fields of the entry (of an empty Enrichment when there is none) and the
\* history behind its pointer go into the event.
BuildFromStore(st, runID, contextID, kind) ==
    LET e == EntryOf(st.data, runID)
        r == [Operation |-> e.Operation, ToolName |-> e.ToolName,
              contextID |-> contextID]
        b == IF e.operationHistory = 0 THEN NewBuffer(HistorySize)
             ELSE st.bufs[e.operationHistory]
    IN  IF kind = "panic" THEN BuildPanicEvent(r, b) ELSE BuildErrorEvent(r, b)

\* A safeRecord that raises the error of Record as a panic.
AfterSafeRecordRaising(panicking, res) ==
    IF res \in {"panic", "sinkErr"} THEN "record" ELSE panicking

\* The panic in flight after w.safeRecord(ctx, event): an error of Record is
\* logged and goes no further; a panic of Record itself is not recovered.
AfterSafeRecord(panicking, res) ==
    IF res = "panic" THEN "record" ELSE panicking

\* A runner over a collector made with WithSink and WithDefaultScrubbing
\* and an empty store; no run has started.
InitRunner ==
    /\ InitSink(<<QueueSize>>, {FALSE})
    /\ MultiAtRest
    /\ PureAtRest
    /\ BufferAtRest
    /\ coll = NewCollector(TRUE, DefaultScrubber)
    /\ input = ZeroEvent
    /\ run = NoRun
    /\ store = NoStore
    /\ runs = [runID \in RunIDs |-> IdleRun]

\* Run, RunOnce or RunStream up to the call of the inner runner: a new
\* run ID is made and put into the context.
StartRun(runID) ==
    /\ runs[runID].pc = "idle"
    /\ \E method \in {"Run", "RunOnce", "RunStream"} :
          runs' = [runs EXCEPT ![runID] =
                      [@ EXCEPT !.pc = "inner", !.method = method,
                                !.contextID =
                                    IF method = "RunOnce" THEN 0
                                    ELSE ExtractContextID(NoContextID, NoSession)]]
    /\ UNCHANGED <<asyncVars, multiVars, collVars, ringVars, pureVars, runVars,
                   store>>

\* A start hook of the run's agent (OnToolStart with the run's arguments),
\* called while the inner runner runs or while the stream is read:
\*   h.store.Update(runID, func(e *Enrichment) { ...; e.RecordOperation(...) })
HookUpdate(runID) ==
    /\ runs[runID].pc \in {"inner", "streaming"}
    /\ runs[runID].hooks < MaxRunHooks
    /\ LET e == [EntryOf(store.data, runID) EXCEPT
                    !.Operation = <<"tool">>, !.ToolName = <<"t">>]
           done == EnrichmentRecordOperation(e, store.bufs,
                      [Kind |-> "tool", Timestamp |-> store.steps + 1,
                       Duration |-> 0, Input |-> <<runID>>, Output |-> <<>>])
       IN  store' = [store EXCEPT !.data = WithEntry(@, runID, done.e),
                                  !.bufs = done.bufs,
                                  !.op = "update", !.steps = @ + 1]
    /\ runs' = [runs EXCEPT ![runID].hooks = @ + 1]
    /\ UNCHANGED <<asyncVars, multiVars, collVars, ringVars, pureVars, runVars>>

\* The inner runner ends: it returns a result and an error, or panics.
InnerEnds(runID) ==
    /\ runs[runID].pc = "inner"
    /\ \E outcome \in InnerResults :
          runs' = [runs EXCEPT ![runID] =
                      [@ EXCEPT !.inner = outcome,
                                !.panicking = outcome.panic,
                                !.seen = [e |-> EntryOf(store.data, runID),
                                          history |->
                                              EnrichmentHistory(
                                                  EntryOf(store.data, runID),
                                                  store.bufs)],
                                !.pc = IF outcome.panic # "none" THEN "recover"
                                       ELSE IF outcome.err # "nil" THEN "capture"
                                       ELSE "unwind"]]
    /\ UNCHANGED <<asyncVars, multiVars, collVars, ringVars, pureVars, runVars,
                   store>>

\* if err != nil { w.captureError(ctx, runID, contextID, err) }: the event
\* is built from the enrichment and recorded.  A panic of Record starts the
\* deferred calls; otherwise RunStream goes on to its Delete and Run and
\* RunOnce return.
CaptureError(runID) ==
    /\ runs[runID].pc = "capture"
    /\ LET event == BuildFromStore(store, runID, runs[runID].contextID, "error")
       IN  /\ input' = event
           /\ coll' \in RecordOutcomes(coll, event)
           /\ runs' = [runs EXCEPT ![runID] =
                          [@ EXCEPT !.built = Append(@, event),
                                    !.results = Append(@, coll'.res),
                                    !.panicking = AfterSafeRecord(@, coll'.res),
                                    !.pc = IF AfterSafeRecord("none", coll'.res)
                                               # "none"
                                           THEN "recover"
                                           ELSE IF runs[runID].method = "RunStream"
                                           THEN "cleanup"
                                           ELSE "unwind"]]
    /\ UNCHANGED <<asyncVars, multiVars, ringVars, pureVars, runVars, store>>

\* RunStream after captureError: w.enrichments.Delete(runID)
StreamCleanup(runID) ==
    /\ runs[runID].pc = "cleanup"
    /\ store' = [store EXCEPT !.data = Without(@, runID), !.op = "delete"]
    /\ runs' = [runs EXCEPT ![runID].pc = "unwind"]
    /\ UNCHANGED <<asyncVars, multiVars, collVars, ringVars, pureVars, runVars>>

\* The deferred w.capturePanic(ctx, runID, contextID) of a panicking run:
\* recover, build the event from the enrichment, record it, panic(r).
CapturePanic(runID) ==
    /\ runs[runID].pc = "recover"
    /\ LET event == BuildFromStore(store, runID, runs[runID].contextID, "panic")
       IN  /\ input' = event
           /\ coll' \in RecordOutcomes(coll, event)
           /\ runs' = [runs EXCEPT ![runID] =
                          [@ EXCEPT !.built = Append(@, event),
                                    !.results = Append(@, coll'.res),
                                    !.panicking = AfterSafeRecord(@, coll'.res),
                                    !.pc = "unwind"]]
    /\ UNCHANGED <<asyncVars, multiVars, ringVars, pureVars, runVars, store>>

\* The call ends.  Run and RunOnce run the deferred
\* w.enrichments.Delete(runID), which was deferred first and so runs after
\* capturePanic; RunStream has no such call.  The caller gets the result
\* and the error of the inner runner, or the panic in flight; a stream that
\* was started goes on.
Unwind(runID) ==
    /\ runs[runID].pc = "unwind"
    /\ store' = IF runs[runID].method \in {"Run", "RunOnce"}
                THEN [store EXCEPT !.data = Without(@, runID), !.op = "delete"]
                ELSE store
    /\ runs' = [runs EXCEPT ![runID] =
                   [@ EXCEPT !.returned =
                                 IF runs[runID].panicking # "none"
                                 THEN [result |-> "none", err |-> "none",
                                       panic |-> runs[runID].panicking]
                                 ELSE runs[runID].inner,
                             !.pc = IF /\ runs[runID].method = "RunStream"
                                       /\ runs[runID].panicking = "none"
                                       /\ runs[runID].inner.err = "nil"
                                    THEN "streaming" ELSE "done"]]
    /\ UNCHANGED <<asyncVars, multiVars, collVars, ringVars, pureVars, runVars>>

\* The context of a started stream is cancelled.  No code of the wrapper
\* runs then: neither RunStream nor the hooks watch ctx.Done().
CancelContext(runID) ==
    /\ runs[runID].pc = "streaming"
    /\ runs' = [runs EXCEPT ![runID].pc = "cancelled"]
    /\ UNCHANGED <<asyncVars, multiVars, collVars, ringVars, pureVars, runVars,
                   store>>

NextRunner ==
    \E runID \in RunIDs :
        \/ StartRun(runID)
        \/ HookUpdate(runID)
        \/ InnerEnds(runID)
        \/ CaptureError(runID)
        \/ StreamCleanup(runID)
        \/ CapturePanic(runID)
        \/ Unwind(runID)
        \/ CancelContext(runID)

SpecRunner == InitRunner /\ [][NextRunner]_vars

\* The wrapper's own steps are taken when they can be: a call that can go
\* on does go on.  Nothing is assumed of the inner runner or the caller.
WrapperStep ==
    \E runID \in RunIDs :
        \/ CaptureError(runID)
        \/ StreamCleanup(runID)
        \/ CapturePanic(runID)
        \/ Unwind(runID)

\* The runner with one caller: the second run ID is never made.
InitOneCaller ==
    /\ InitSink(<<QueueSize>>, {FALSE})
    /\ MultiAtRest
    /\ PureAtRest
    /\ BufferAtRest
    /\ coll = NewCollector(TRUE, DefaultScrubber)
    /\ input = ZeroEvent
    /\ run = NoRun
    /\ store = NoStore
    /\ runs = [runID \in RunIDs |->
                  IF runID = "run-1" THEN IdleRun
                  ELSE [IdleRun EXCEPT !.pc = "unused"]]

SpecRunnerFair ==
    InitOneCaller /\ [][NextRunner]_vars /\ WF_vars(WrapperStep)

\* ----------------------------------------------------------------- claims

\* C1: Write never blocks.  A producer inside Write always has a step it can
\* take, whatever the drain goroutine and the inner sink are doing and
\* whether the queue is empty, partly filled or full; a Write that returns
\* while the sink is not closed returns nil; and Write returns an error only
\* when it found the sink closed, never because it met a full queue.
C1_WriteNeverBlocks ==
    \A p \in Producers :
        /\ InWrite(p) => ENABLED WriteStep(p)
        /\ (prod[p].pc = "returned" /\ ~closed) => prod[p].res = "nil"
        /\ prod[p].pc = "panicked" => closed
        /\ prod[p].res = "err" => (prod[p].late /\ ~prod[p].full)

\* A Write that met a full queue has returned nil on a sink that is not closed
\* while the drain goroutine is inside the inner sink's Write.
C1_Witness ==
    \E p \in Producers :
        /\ prod[p].pc = "returned"
        /\ prod[p].full
        /\ prod[p].res = "nil"
        /\ ~closed
        /\ inner.busy # {}

C3_WriteNeverPanics ==
    \A p \in Producers : prod[p].pc # "panicked"

\* C5: across any number of Close calls teardown runs once: done is closed
\* once, the queue is closed once and the inner sink's Close is called exactly
\* once.
C5_TeardownOnce ==
    /\ doneCloses <= 1
    /\ queueCloses <= 1
    /\ inner.closes <= 1

\* C6: once the drain goroutine has exited, every event that was queued when
\* Close marked the sink closed has been passed to the inner sink's Write;
\* the inner sink sees no Write after its Close; and Close returns what the
\* inner sink's Close returned.
C6_CloseDrainsQueue ==
    /\ (\A w \in Workers : worker[w].pc = "exited") =>
           Range(queuedAtClose) \subseteq Range(inner.writes)
    /\ ~inner.writeAfterClose
    /\ \A c \in Closers : closer[c].pc = "returned" => closer[c].res = InnerResult

\* C7: a Write that starts after Close has marked the sink closed returns an
\* error, and its event is neither enqueued, nor reported to the drop
\* callback, nor passed to the inner sink.
C7_WriteAfterCloseRejected ==
    \A p \in Producers :
        prod[p].late =>
            /\ prod[p].pc = "returned"
            /\ prod[p].res = "err"
            /\ ~prod[p].enq
            /\ prod[p].cb = 0
            /\ prod[p].ev \notin Range(enqueued)
            /\ prod[p].ev \notin Range(queue)
            /\ prod[p].ev \notin dropLog.events
            /\ prod[p].ev \notin Range(inner.writes)
            /\ \A w \in Workers : worker[w].ev # prod[p].ev

\* A Write that started on a closed sink has returned its error.
C7_Witness ==
    \E p \in Producers :
        /\ prod[p].late
        /\ prod[p].pc = "returned"
        /\ prod[p].res = "err"

\* C10: at most one call of the inner sink's Write is in progress at any
\* time, and it is the drain goroutine that makes it, never a producer.
C10_SingleDrainWorker ==
    /\ inner.busy \subseteq Workers
    /\ Cardinality(inner.busy) <= 1
    /\ \A w \in Workers : (w \in inner.busy) <=> (worker[w].pc \in {"write", "drainWrite"})

\* The drain goroutine is inside the inner sink's Write while a producer is
\* inside Write.
C10_Witness ==
    /\ inner.busy # {}
    /\ \E p \in Producers : InWrite(p)

\* C4: if no Write ran during the Flush call and Flush returned nil, every
\* accepted event that was not dropped had been passed to the inner sink's
\* Write, and that Write had returned, before the inner sink's Flush was
\* called.
C4_FlushWaitsForDelivery ==
    (flusher.pc = "returned" /\ flusher.res = "nil" /\ ~flusher.overlap) =>
        ~flusher.pending

\* C8: a Flush that is called after Close has returned does not return nil.
C8_FlushAfterCloseFails ==
    (flusher.pc = "returned" /\ flusher.afterClose) => flusher.res # "nil"

\* C9: if the context is done before Flush has seen the queue empty, Flush
\* does not call the inner sink's Flush and returns the context's error.
C9_FlushHonoursCancellation ==
    flusher.cancelledFirst =>
        /\ ~flusher.innerCalled
        /\ flusher.pc = "returned" => flusher.res = "ctxErr"

\* The events passed to the inner sink's Write so far, in the order of the
\* calls: those whose Write has returned, then the one whose Write is running.
Passed(w) ==
    IF worker[w].pc \in {"write", "drainWrite"}
    THEN Append(inner.writes, worker[w].ev) ELSE inner.writes

\* Sequence s holds events of sequence t, each once, in t's order.
IsSubSeq(s, t) ==
    /\ Range(s) \subseteq Range(t)
    /\ \A i, j \in 1 .. Len(s) :
           i < j => (CHOOSE k \in 1 .. Len(t) : t[k] = s[i])
                       < (CHOOSE k \in 1 .. Len(t) : t[k] = s[j])

\* Only producer p has called Write so far.
OnlyProducer(p) == \A q \in Producers \ {p} : prod[q].pc = "idle"

\* C11: the events the drain goroutine passes to the inner sink arrive in the
\* order in which they were enqueued; when a single producer writes, they are
\* a subsequence of the sequence of events it wrote (events 1, 2, 3, ... in
\* the order of its Write calls), so eviction removes events but never
\* reorders the survivors.
C11_DeliveredInEnqueueOrder ==
    \A w \in Workers :
        /\ IsSubSeq(Passed(w), enqueued)
        /\ (\E p \in Producers : OnlyProducer(p)) =>
               \A i, j \in 1 .. Len(Passed(w)) :
                   i < j => Passed(w)[i] < Passed(w)[j]

\* A single producer wrote; an event enqueued between two delivered ones was
\* evicted, and the inner sink received the survivors.
C11_Witness ==
    /\ \E p \in Producers : OnlyProducer(p)
    /\ Len(inner.writes) >= 2
    /\ \E e \in dropLog.events :
           /\ e \in Range(enqueued)
           /\ inner.writes[1] < e
           /\ e < inner.writes[2]

\* C12: in every reachable state the queue's capacity is the configured one
\* (1000 by default, n for WithQueueSize(n) with n > 0, the default for a
\* non-positive n) and the number of queued events is at most that capacity,
\* for any interleaving of producers and the drain goroutine.
C12_QueueWithinCapacity ==
    LET configured == IF cfg.opts # <<>> /\ cfg.opts[1] > 0
                      THEN cfg.opts[1] ELSE 1000
    IN  /\ cfg.queueSize = configured
        /\ Len(queue) <= configured

\* A queue made with WithQueueSize(QueueSize) is full, a producer that found
\* it full is about to evict, and the drain goroutine is inside inner.Write.
C12_Witness ==
    /\ cfg.opts = <<QueueSize>>
    /\ Len(queue) = QueueSize
    /\ inner.busy # {}
    /\ \E p \in Producers : prod[p].pc = "evict"

\* C13: one call of a multi sink's Write, Flush or Close invokes that
\* operation on every child exactly once, in the order the children were
\* given to NewMultiSink, whatever the earlier children returned: while the
\* call runs the children called are a prefix of the list, and when it returns
\* they are the whole list.
C13_EveryChildOnceInOrder ==
    /\ multi.log = SubSeq(multi.sinks, 1, multi.i - 1)
    /\ multi.pc = "returned" => multi.log = multi.sinks

\* A call on three children has returned; the first child given failed and
\* the later ones were called all the same.
C13_Witness ==
    /\ multi.pc = "returned"
    /\ Len(multi.sinks) = 3
    /\ multi.sinks[1] \in multi.failed
    /\ multi.log = multi.sinks

\* C14: a multi sink's Write, Flush or Close returns nil if and only if every
\* child returned nil (so always nil with no children); otherwise errors.Is
\* finds the original error of every failing child in the returned error.
C14_ErrorsAggregated ==
    multi.pc = "returned" =>
        /\ (multi.res = NilError) <=> (multi.failed = {})
        /\ Len(multi.sinks) = 0 => multi.res = NilError
        /\ \A c \in multi.failed : ErrorsIs(multi.res, ChildError(c))

\* A call has returned after two of its children failed and one succeeded.
C14_Witness ==
    /\ multi.pc = "returned"
    /\ Cardinality(multi.failed) = 2
    /\ Len(multi.sinks) = 3
    /\ multi.res # NilError

\* C15: every Record call calls the sink's Write exactly once and returns
\* exactly what that Write returned, on every path; scrubbing never makes
\* Record end without the Write or with another result.
C15_RecordWritesOnce ==
    coll.pc # "idle" =>
        /\ Len(coll.sunk) = 1
        /\ coll.pc = "returned"
        /\ coll.res = coll.sinkRes

\* C16: the event the Collector passes to the sink carries the Fingerprint
\* of that same event as passed (after scrubbing), whatever Fingerprint the
\* caller had set.
C16_FingerprintOfPassedEvent ==
    \A k \in 1 .. Len(coll.sunk) :
        coll.sunk[k].Fingerprint = Fingerprint(coll.sunk[k])

\* The caller had set a stale Fingerprint, scrubbing changed the stack
\* trace's frames, and the event passed to the sink carries the fingerprint
\* of the scrubbed event, not that of the caller's.
C16_Witness ==
    /\ coll.pc = "returned"
    /\ coll.scrubber.on
    /\ input.Fingerprint = <<"#", "x">>
    /\ Fingerprint(coll.sunk[1]) # Fingerprint(input)
    /\ coll.sunk[1].Fingerprint = Fingerprint(coll.sunk[1])

\* C17: Record assigns a generated, non-empty EventID only when the event's
\* EventID is empty and the current time only when its Timestamp is zero; an
\* EventID or Timestamp the caller set reaches the sink unchanged.
C17_IdentityDefaulted ==
    \A k \in 1 .. Len(coll.sunk) :
        /\ coll.sunk[k].EventID # ""
        /\ input.EventID # "" => coll.sunk[k].EventID = input.EventID
        /\ input.EventID = "" => coll.sunk[k].EventID = "generated-uuid"
        /\ input.Timestamp # 0 => coll.sunk[k].Timestamp = input.Timestamp
        /\ input.Timestamp = 0 => coll.sunk[k].Timestamp = WallClock

\* An event with the caller's EventID and a zero Timestamp went through a
\* scrubbing collector: the sink got the caller's EventID and the current
\* time.
C17_Witness ==
    /\ coll.pc = "returned"
    /\ coll.scrubber.on
    /\ input.EventID = "evt-123"
    /\ input.Timestamp = 0
    /\ coll.sunk[1].EventID = "evt-123"
    /\ coll.sunk[1].Timestamp = WallClock

\* The last n elements of sequence q, all of them when it has fewer.
LastOf(q, n) == SubSeq(q, IF Len(q) > n THEN Len(q) - n + 1 ELSE 1, Len(q))

\* C18: after k Add calls (and no UpdateLast) on a buffer of capacity N >= 1,
\* GetAll returns exactly the last min(k, N) records added, oldest first, in
\* the order they were added; a result a caller has just received is that
\* sequence too.
C18_GetAllReturnsLastN ==
    hist.updates = 0 =>
        /\ GetAll(ring) = LastOf(hist.added, ring.maxSize)
        /\ hist.op = "getall" => hist.got = LastOf(hist.added, ring.maxSize)

\* Records 1 to 5 were added to a buffer of capacity 3 and GetAll returned
\* records 3, 4, 5.
C18_Witness ==
    /\ ring.maxSize = 3
    /\ Len(hist.added) = 5
    /\ hist.op = "getall"
    /\ hist.updates = 0
    /\ hist.got = <<NewRecord(3), NewRecord(4), NewRecord(5)>>

\* C19: in every state reachable by Add, GetAll and UpdateLast on a buffer
\* of capacity N >= 1 the number of held records is at most N, the write
\* cursor is within 0 .. N-1 and is 0 until the buffer is full, and the length
\* of GetAll's result is the number of held records.
C19_BufferBounds ==
    /\ ring.maxSize >= 1
    /\ Len(ring.records) <= ring.maxSize
    /\ ring.writeIdx \in 0 .. ring.maxSize - 1
    /\ Len(ring.records) < ring.maxSize => ring.writeIdx = 0
    /\ Len(GetAll(ring)) = Len(ring.records)
    /\ hist.op = "getall" => Len(hist.got) = Len(ring.records)

\* A buffer of capacity 3 has wrapped: five records added, three held, the
\* cursor at 2, and GetAll has just returned three records.
C19_Witness ==
    /\ ring.maxSize = 3
    /\ Len(hist.added) = 5
    /\ Len(ring.records) = 3
    /\ ring.writeIdx = 2
    /\ hist.op = "getall"
    /\ Len(hist.got) = 3

\* C20: UpdateLast applies the mutation to the most recently added record
\* only, also after the buffer has wrapped: the other held records and the
\* order are as before the call, and it returns true; on an empty buffer it
\* returns false and does not call the mutation.
C20_UpdateLastOnlyLast ==
    hist.op = "update" =>
        IF hist.before = <<>>
        THEN /\ ~hist.updated
             /\ hist.fnCalls = 0
             /\ GetAll(ring) = <<>>
        ELSE /\ hist.updated
             /\ hist.fnCalls = 1
             /\ Len(GetAll(ring)) = Len(hist.before)
             /\ \A k \in 1 .. Len(hist.before) - 1 :
                    GetAll(ring)[k] = hist.before[k]
             /\ hist.before[Len(hist.before)].tag = Len(hist.added)
             /\ GetAll(ring)[Len(hist.before)] =
                    [hist.before[Len(hist.before)] EXCEPT !.dur = hist.patch]

\* UpdateLast has just patched record 5 of a buffer of capacity 3 that had
\* wrapped; records 3 and 4 are as they were.
C20_Witness ==
    /\ hist.op = "update"
    /\ ring.maxSize = 3
    /\ Len(hist.added) = 5
    /\ hist.updated
    /\ GetAll(ring)[3].tag = 5
    /\ GetAll(ring)[3].dur = 2
    /\ GetAll(ring)[1] = hist.before[1]
    /\ GetAll(ring)[2] = hist.before[2]

\* ------------------------------------------------------------------- C21

\* C21: for every input that fails to parse as JSON, ScrubJSON returns the
\* fixed sentinel "[REDACTED:SCRUB_ERROR]" and never the raw input, whatever
\* the ScrubberConfig is, FailClosed set to false included.
C21_ScrubJSONFailsClosed ==
    (scrub.op = "json" /\ Unmarshal(scrub.arg) = JsonError) =>
        scrub.out = ScrubError

\* ------------------------------------------------------------------- C23

\* C23: ScrubMetadata returns a map with exactly the keys of the input; the
\* value of a key whose lowercased form contains a sensitive pattern is the
\* redaction marker whatever the value was, and every other value is
\* unchanged when it is within the per-value maximum and cut to at most that
\* maximum otherwise.
C23_MetadataRedactedByKey ==
    (scrub.op = "metadata" /\ ~scrub.arg.isNil) =>
        /\ ~scrub.out.isNil
        /\ DOMAIN scrub.out.kv = DOMAIN scrub.arg.kv
        /\ \A k \in DOMAIN scrub.arg.kv :
              LET given == scrub.arg.kv[k]
                  got == scrub.out.kv[k]
                  limit == scrub.cfg.MaxMetadataKeySize
              IN  /\ got # Panic
                  /\ k \in {"auth_token", "API_KEY"} => got = Redacted
                  /\ k = "request_id" =>
                        IF Len(given) <= limit THEN got = given
                        ELSE Len(got) <= limit

\* ------------------------------------------------------------------- C24

\* C24: for every input message, the length of ScrubMessage's output is at
\* most MaxMessageSize plus the length of the truncation marker.
C24_MessageLengthBounded ==
    scrub.op = "message" =>
        /\ scrub.out # Panic
        /\ Len(scrub.out) <= scrub.cfg.MaxMessageSize + Len(Marker)

\* ------------------------------------------------------------------- C25

\* C25: with ScrubMessages disabled, ScrubMessage returns a message within
\* the size limit unchanged and still truncates an oversized one, and
\* ScrubStackTrace, ScrubMetadata and ScrubJSON return what they return with
\* the flag enabled.
C25_FlagOnlyStopsRedaction ==
    LET limit == scrub.cfg.MaxMessageSize
        enabled == [scrub.cfg EXCEPT !.ScrubMessages = TRUE]
    IN  ~scrub.cfg.ScrubMessages =>
            /\ (scrub.op = "message" /\ Len(scrub.arg) <= limit) =>
                    scrub.out = scrub.arg
            /\ (scrub.op = "message" /\ limit >= 0 /\ Len(scrub.arg) > limit) =>
                    Len(scrub.out) <= limit
            /\ scrub.op = "trace" =>
                    scrub.out = ScrubStackTrace(enabled, scrub.arg)
            /\ scrub.op = "metadata" =>
                    scrub.out = ScrubMetadata(enabled, scrub.arg)
            /\ scrub.op = "json" =>
                    scrub.out = ScrubJSON(enabled, scrub.arg)

\* ------------------------------------------------------------------- C26

\* C26: ScrubMessage, ScrubStackTrace, ScrubMetadata and ScrubJSON each
\* return an empty input (the empty string, a nil or an empty map) as the
\* same empty value.
C26_EmptyInputUnchanged ==
    /\ (scrub.op \in {"message", "trace", "json"} /\ scrub.arg = <<>>) =>
            scrub.out = <<>>
    /\ (scrub.op = "metadata" /\ (scrub.arg.isNil \/ DOMAIN scrub.arg.kv = {})) =>
            scrub.out = scrub.arg

\* ------------------------------------------------------------------- C27

\* C27: Fingerprint depends on ErrorType, Operation, AgentName, ToolName and
\* the first three normalized stack frames only: an event with the same four
\* fields whose stack trace differs in line numbers and memory addresses, and
\* in anything after the third function line, gets the same fingerprint
\* although its Message, EventID, Timestamp, Severity and Metadata differ.
C27_FingerprintIgnoresVariableData ==
    fp.pc = "done" =>
        LET RECURSIVE Revisions(_)
            SameLine(u) == CASE u \in {"a", "b"} -> {"a", "b"}
                             [] u \in {"p", "l"} -> {"p", "l"}
                             [] OTHER -> {u}
            Revisions(t) ==
                IF t = <<>> THEN {<<>>}
                ELSE {<<u>> \o r : u \in SameLine(Head(t)), r \in Revisions(Tail(t))}
            trace == fp.event.StackTrace
            Frames(k) == Cardinality({i \in 1 .. k : trace[i] \in {"a", "b", "f"}})
            ends == {k \in 1 .. Len(trace) : Frames(k) = 3}
            cut == CHOOSE k \in ends : \A j \in ends : k <= j
            agreeing ==
                IF ends = {} THEN Revisions(trace)
                ELSE {r \o rest : r \in Revisions(SubSeq(trace, 1, cut)),
                                  rest \in StringsOver(FpLines, MaxLines - cut)}
        IN  \A t \in agreeing :
                Fingerprint(FpEvent(LaterOccurrence, fp.event.ErrorType,
                                    fp.event.Operation, fp.event.AgentName,
                                    fp.event.ToolName, t))
                    = fp.out

\* A fingerprint was taken of an event with four function lines, the third
\* and fourth with other addresses, so that a fourth frame is left out.
C27_Witness ==
    /\ fp.pc = "done"
    /\ fp.event.StackTrace = <<"a", "f", "b", "a">>
    /\ fp.out = <<"#", "x", "|", "x", "|", "|", "x", "|", "a", "|", "f", "|", "a">>

\* ------------------------------------------------------------------- C28

\* C28: two events that differ in ErrorType, Operation, AgentName or ToolName
\* get different fingerprints, whatever the values of the fields and the
\* stack traces are.
C28_FieldsSeparateFingerprints ==
    fp.pc = "done" =>
        \A et \in FpNames, op \in FpNames,
           ag \in FpOptionalNames, tl \in FpOptionalNames :
            (<<et, op, ag, tl>>
                # <<fp.event.ErrorType, fp.event.Operation, fp.event.AgentName,
                    fp.event.ToolName>>)
                => Fingerprint([fp.event EXCEPT !.ErrorType = et, !.Operation = op,
                                                !.AgentName = ag, !.ToolName = tl])
                        # fp.out

\* C29: an event's ContextID tells unset from zero end to end.  Whenever
\* Recover or the wrapped runner has built an event, the event has a
\* ContextID exactly when a context ID was supplied (by WithContextID on the
\* context, or by the session's ContextID provider returning no error), a
\* supplied 0 included, its value is a supplied one, and the event handed to
\* the sink carries the same ContextID.
C29_ContextIDUnsetOrZero ==
    LET fromContext == IF run.ctx.set THEN {run.ctx.id} ELSE {}
        fromSession == IF /\ run.method # "Recover"
                          /\ run.session.provider
                          /\ ~run.session.failing
                       THEN {run.session.id} ELSE {}
        supplied == fromContext \cup fromSession
    IN  run.failure # "none" =>
           /\ run.built.ContextID.isNil <=> supplied = {}
           /\ ~run.built.ContextID.isNil => run.built.ContextID.v \in supplied
           /\ coll.sunk # <<>> =>
                 coll.sunk[Len(coll.sunk)].ContextID = run.built.ContextID

C22_HistorySecretsRedacted ==
    \A i \in 1 .. Len(coll.sunk) :
        LET meta == coll.sunk[i].Metadata
        IN  (~meta.isNil /\ HistoryKey \in DOMAIN meta.kv) =>
                \A j \in 1 .. Len(meta.kv[HistoryKey]) :
                    meta.kv[HistoryKey][j] # "s"

\* C39: the sequence GetAll returned is a snapshot.  Whatever Add and
\* UpdateLast calls follow, the slice the caller holds still reads what
\* GetAll returned.
C39_GetAllReturnsSnapshot ==
    hist.held = hist.got

\* C38: an end hook writes to the record of the operation that ended and to
\* no other.  In every step of OnToolEnd or OnLLMEnd, a record that is
\* changed is the one the start hook of the ended operation created, and
\* that record, while it is in the buffer, is changed.
C38_EndDataOnOwnRecord ==
    [][run'.ends = run.ends + 1 =>
          \A i \in 1 .. Len(ring.records) :
              (ring'.records[i] # ring.records[i])
                  <=> (ring.records[i].Timestamp = run'.ended)]_vars

\* C31: Get returns a copy.  A change made through the returned Enrichment
\* (to a field or by RecordOperation) leaves what Get returns for every run
\* as it was, and an Update or Delete of the store leaves the returned
\* Enrichment, its operation history included, as it was.
C31_GetReturnsCopy ==
    [][LET Stored(st, runID) ==
               IF runID \in DOMAIN st.data
               THEN [ok |-> TRUE, AgentName |-> st.data[runID].AgentName,
                     history |-> EnrichmentHistory(st.data[runID], st.bufs)]
               ELSE [ok |-> FALSE, AgentName |-> "", history |-> <<>>]
           Returned(st) ==
               [AgentName |-> st.got.AgentName,
                history |-> EnrichmentHistory(st.got, st.bufs)]
       IN  /\ store'.op = "modify" =>
                 \A runID \in RunIDs : Stored(store', runID) = Stored(store, runID)
           /\ (store'.op \in {"update", "delete"} /\ store.got.ok) =>
                 Returned(store') = Returned(store)]_vars



\* C32: when Run or RunOnce has finished, by a return or by a panic, the
\* store has no entry for the run's ID; the event of a failed run is the one
\* the builder makes from the enrichment the run had when the inner runner
\* ended, so it was built before the deletion; and all a run's entry holds
\* are records of the run's own hooks.
C32_EnrichmentDeletedAfterEvent ==
    \A runID \in RunIDs :
        LET r == runs[runID]
            Own(history) ==
                \A i \in 1 .. Len(history) : history[i].Input = <<runID>>
            Expected(kind) ==
                BuildFromStore([data |-> WithEntry(<<>>, runID, r.seen.e),
                                bufs |-> store.bufs],
                               runID, r.contextID, kind)
        IN  /\ Own(EnrichmentHistory(EntryOf(store.data, runID), store.bufs))
            /\ Own(r.seen.history)
            /\ (r.pc = "done" /\ r.method \in {"Run", "RunOnce"}) =>
                  /\ runID \notin DOMAIN store.data
                  /\ r.inner.err = "err" =>
                        /\ r.built = <<Expected("error")>>
                        /\ r.seen.history # <<>> =>
                              r.built[1].Metadata.kv[HistoryKey]
                                  = MarshalHistory(r.seen.history)
                  /\ r.inner.panic # "none" =>
                        /\ r.built = <<Expected("panic")>>
                        /\ r.seen.history # <<>> =>
                              r.built[1].Metadata.kv[HistoryKey]
                                  = MarshalHistory(r.seen.history)

\* Two runs overlapped and both recorded operations; one of them failed and
\* has finished, its event holds its history and its entry is gone, while
\* the other run's entry is still in the store.
C32_Witness ==
    \E runID \in RunIDs, other \in RunIDs :
        /\ other # runID
        /\ runs[runID].pc = "done"
        /\ runs[runID].method = "Run"
        /\ runs[runID].inner.err = "err"
        /\ Len(runs[runID].seen.history) = MaxRunHooks
        /\ Len(runs[runID].built) = 1
        /\ runID \notin DOMAIN store.data
        /\ other \in DOMAIN store.data
        /\ runs[other].pc = "inner"

\* C33: a run whose events the collector failed to record (Record returned
\* an error each time) ends as the inner runner ended: the caller gets the
\* inner runner's result and error, or the inner runner's panic value, and a
\* panic was recorded exactly once, an error exactly once, a success never.
C33_CollectorFailureKeepsOutcome ==
    \A runID \in RunIDs :
        LET r == runs[runID]
        IN  (/\ r.pc \in {"done", "streaming", "cancelled"}
             /\ \A i \in 1 .. Len(r.results) : r.results[i] \in {"nil", "sinkErr"})
            => /\ r.returned = r.inner
               /\ r.inner.panic # "none" =>
                     /\ Len(r.built) = 1
                     /\ r.built[1].Severity = "crash"
                     /\ r.returned.panic = "boom"
               /\ (r.inner.panic = "none" /\ r.inner.err = "err") =>
                     /\ Len(r.built) = 1
                     /\ r.built[1].Severity = "error"
               /\ (r.inner.panic = "none" /\ r.inner.err = "nil") =>
                     r.built = <<>>

\* Record failed for the error of one finished run and for the panic of
\* another; the first returned the inner runner's result and error, the
\* second raised the inner runner's panic again.
C33_Witness ==
    \E runID \in RunIDs, other \in RunIDs :
        /\ runs[runID].pc = "done"
        /\ runs[runID].method \in {"Run", "RunOnce"}
        /\ runs[runID].results = <<"sinkErr">>
        /\ runs[runID].returned =
               [result |-> "result", err |-> "err", panic |-> "none"]
        /\ runs[other].pc = "done"
        /\ runs[other].method \in {"Run", "RunOnce"}
        /\ runs[other].results = <<"sinkErr">>
        /\ runs[other].returned.panic = "boom"

\* C37: the entry of a RunStream run is deleted in the end: when RunStream
\* has returned an error, or when the context of a started stream has been
\* cancelled, a state follows in which the store has no entry for the run.
C37_StreamEnrichmentDeleted ==
    \A runID \in RunIDs :
        (/\ runs[runID].method = "RunStream"
         /\ \/ runs[runID].pc = "cancelled"
            \/ runs[runID].pc = "done" /\ runs[runID].returned.err = "err")
        ~> (runID \notin DOMAIN store.data)

\* C34: once a Close call has returned and no producer is inside Write,
\* every event whose Write returned nil (it was put on the queue, or it was
\* dropped as the new event) is accounted for once: either the inner sink's
\* Write was called with it, exactly once, or the drop callback reported it,
\* not both; and the callback was called once for each accepted event that
\* was not delivered.
C34_AcceptedAccountedOnce ==
    LET accepted == Range(enqueued) \cup dropLog.events
        Deliveries(e) ==
            Cardinality({i \in 1 .. Len(inner.writes) : inner.writes[i] = e})
    IN  (/\ \E c \in Closers : closer[c].pc = "returned"
         /\ \A p \in Producers : ~InWrite(p))
        => /\ \A e \in accepted :
                 /\ Deliveries(e) <= 1
                 /\ (Deliveries(e) = 1) # (e \in dropLog.events)
           /\ dropLog.calls = Cardinality(accepted \ Range(inner.writes))

C36_DrainProtocolTerminates ==
    /\ \A c \in Closers :
          (closer[c].pc # "idle") ~> (closer[c].pc = "returned")
    /\ (/\ flusher.pc \notin {"idle", "returned"}
        /\ \A p \in Producers : ~InWrite(p))
       ~> \/ flusher.pc = "returned"
          \/ ctxCancelled
          \/ \E p \in Producers : InWrite(p)
====
